---- MODULE Spec2Model ----
(***************************************************************************)
(* Model of the business-profile pipeline of the marketing strategy        *)
(* recommender backend: app/agents/profile_builder.py (ProfileBuilderAgent),*)
(* app/utils/llm.py (LLMClient) and app/api/profile.py (the /profile/build  *)
(* handler).                                                                *)
(*                                                                         *)
(* Text is modelled at two grains.  The response parser works on sequences *)
(* of lexical tokens, budget strings on sequences of characters.           *)
(***************************************************************************)
EXTENDS Integers, Sequences, FiniteSets, TLC

VARIABLES
    \* ---- Response parser (ProfileBuilderAgent._parse_llm_response)
    pText,      \* the raw LLM response handed to the parser, a token sequence
    pResult,    \* what the call produced: a return value or a raised error
    pPhase,     \* "idle" | "ready" | "done"
    \* ---- Budget normalization (ProfileBuilderAgent._normalize_budget)
    bIn,        \* resources['monthly_budget'] before the call, a character sequence
    bOut,       \* outcome of the last call: the stored budget, or a raised error
    bPhase,     \* "idle" | "ready" | "once" | "twice"
    \* ---- LLM gateway (LLMClient.generate_completion)
    gMessages,  \* the chat messages built for the request
    gAttempt,   \* loop variable of  for attempt in range(self.max_retries)
    gCalls,     \* requests sent to the text-generation backend so far
    gFailures,  \* the failure logged for each failed request, in order
    gSlept,     \* seconds spent in asyncio.sleep between attempts
    gState,     \* "idle" | "attempt" | "inflight" | "sleeping" | "returned" | "raised"
    gResult,    \* the text returned or the cause carried by the raised error
    gErrorKind, \* the class of the raised error, "" while none is raised
    \* ---- One run of ProfileBuilderAgent.build_profile
    pc,               \* the stage the run has reached
    raw_input,        \* the raw text, a sequence of terms
    normalized_input, \* the output of _preprocess_input
    outcome,          \* what the LLM client did in this run
    extracted,        \* what _extract_profile_data returned: "object" | "nonobject" | "fallback"
    profile,          \* the dict under construction (profile_data, enhanced, complete)
    before,           \* the dict as it was before the latest stage ran
    errors,           \* every error raised in the run: what, in which stage, caught by whom
    history,          \* the stages entered, in order
    result,           \* what build_profile gave its caller
    \* ---- ProfileBuilderAgent._preprocess_input on character strings
    nIn,        \* the raw text
    nOut,       \* the text after the latest application
    nPhase,     \* "idle" | "ready" | "once" | "twice"
    \* ---- ProfileBuilderAgent._classify_business_type on character strings
    kText,      \* input_text
    kType,      \* business_type, as the caller passes it (lower case)
    kOut,       \* what the call returned
    kPhase,     \* "idle" | "ready" | "done"
    \* ---- The analyze-only handler, analyze_input
    aText,      \* request.text
    aResponse,  \* the body the handler returned
    aLLMCalls,  \* LLM calls made while handling the request
    aPhase,     \* "idle" | "ready" | "done"
    \* ---- Concurrent build_profile runs in one event loop
    rPc,        \* run -> "idle" | "Received" | "Awaiting" | "Done" | "Failed"
    rRaw,       \* run -> its raw_input
    rNorm,      \* run -> its normalized_input
    rOutcome,   \* run -> what its LLM call gave
    rResult,    \* run -> what build_profile returned or raised
    rHeap,      \* owner -> the profile_data dict allocated under that owner
    rTouched,   \* run -> the owners whose dict the run read or wrote
    \* ---- Authentication: users table, clock, tokens, last request
    uUsers,     \* the rows of the users table, in insertion order
    uNow,       \* the clock, in minutes
    uTicks,     \* how often the clock advanced
    uHeld,      \* the token a client holds, with the data and time it was made from
    uLast,      \* the last request and its response
    \* ---- The in-memory profile store
    sStore,     \* profiles_storage: id -> [profile, raw_input, created_at]
    sClock,     \* int(time.time())
    sHash,      \* raw_input -> hash(raw_input) % 10000 in this process
    sBuilt,     \* the successful builds so far: a set of [id, profile]
    sDeleted,   \* the ids a delete removed
    sLast,      \* the last request and its response
    sPending,   \* raw_input -> the build requests waiting for the LLM
    \* ---- LLMClient.truncate_to_token_limit
    tText,      \* text
    tMax,       \* max_tokens
    tOut,       \* what the call returned
    tPhase,     \* "idle" | "ready" | "done"
    \* ---- generate_strategy_for_submission and the submissions table
    ySubs,      \* submission id -> the stored row, or NoRow
    yPending,   \* the requests waiting for the strategy generator
    yCalls,     \* the submission ids sent to the strategy generator, in order
    yUpdates,   \* the calls of update_submission_strategy, in order
    yLast       \* the last response of the handler

parserVars == <<pText, pResult, pPhase>>
budgetVars == <<bIn, bOut, bPhase>>
gatewayVars ==
    <<gMessages, gAttempt, gCalls, gFailures, gSlept, gState, gResult, gErrorKind>>
pipelineVars ==
    <<pc, raw_input, normalized_input, outcome, extracted, profile, before, errors,
      history, result>>

normalizerVars == <<nIn, nOut, nPhase>>

\* The components added to the first four.
classifierVars == <<kText, kType, kOut, kPhase>>
analyzeVars == <<aText, aResponse, aLLMCalls, aPhase>>
runsVars == <<rPc, rRaw, rNorm, rOutcome, rResult, rHeap, rTouched>>
authVars == <<uUsers, uNow, uTicks, uHeld, uLast>>
storeVars == <<sStore, sClock, sHash, sBuilt, sDeleted, sLast, sPending>>
truncVars == <<tText, tMax, tOut, tPhase>>
strategyVars == <<ySubs, yPending, yCalls, yUpdates, yLast>>
lastVars == <<truncVars, strategyVars>>
laterVars ==
    <<normalizerVars, classifierVars, analyzeVars, runsVars, authVars, storeVars,
      lastVars>>

vars == <<parserVars, budgetVars, gatewayVars, pipelineVars, laterVars>>

(***************************************************************************)
(* Generic helpers                                                         *)
(***************************************************************************)
RECURSIVE SeqsUpTo(_, _)
SeqsUpTo(S, n) ==
    IF n = 0 THEN {<<>>}
    ELSE LET shorter == SeqsUpTo(S, n - 1)
         IN shorter \cup {Append(q, x) : q \in {r \in shorter : Len(r) = n - 1}, x \in S}

\* Python slice s[from:to] with 1-based inclusive bounds; empty when to < from.
Slice(s, from, to) == IF to < from THEN <<>> ELSE SubSeq(s, from, to)

(***************************************************************************)
(* RESPONSE PARSER                                                         *)
(*                                                                         *)
(* Tokens of an LLM response:                                              *)
(*   "{"  "}"   braces                                                     *)
(*   "k"        a member prefix  "key":  (with its separating comma)       *)
(*   "n"        a JSON value that is not an object and holds no brace      *)
(*              (number, string, list, true, false, null)                  *)
(*   "w"        prose that is not JSON                                     *)
(*   " "        whitespace                                                 *)
(***************************************************************************)
MaxTokens == 5

Token == {"{", "}", "k", "n", "w", " "}

NoResult == [raised |-> FALSE, strategy |-> 0, value |-> <<>>, text |-> <<>>]

\* str.strip(): leading and trailing whitespace removed.
RECURSIVE LStrip(_)
LStrip(s) == IF s # <<>> /\ Head(s) = " " THEN LStrip(Tail(s)) ELSE s

RECURSIVE RStrip(_)
RStrip(s) ==
    IF s # <<>> /\ s[Len(s)] = " " THEN RStrip(SubSeq(s, 1, Len(s) - 1)) ELSE s

Strip(s) == RStrip(LStrip(s))

\* The JSON decoder skips whitespace between tokens.
SkipWs(s) == SelectSeq(s, LAMBDA t : t # " ")

\* Recursive descent over a whitespace-free token sequence: the index just
\* after the JSON value that starts at i, or 0 when no value starts there.
\*   value   ::= "n" | "{" members "}"
\*   members ::= ( "k" value )*
RECURSIVE ValueEnd(_, _)
RECURSIVE MembersEnd(_, _)
ValueEnd(s, i) ==
    IF i > Len(s) THEN 0
    ELSE IF s[i] = "n" THEN i + 1
    ELSE IF s[i] = "{" THEN MembersEnd(s, i + 1)
    ELSE 0

MembersEnd(s, i) ==
    IF i > Len(s) THEN 0
    ELSE IF s[i] = "}" THEN i + 1
    ELSE IF s[i] = "k"
         THEN LET e == ValueEnd(s, i + 1)
              IN IF e = 0 THEN 0 ELSE MembersEnd(s, e)
    ELSE 0

\* json.loads(text) succeeds: exactly one JSON value, surrounded by optional
\* whitespace only.
JsonLoadsOk(text) ==
    LET s == SkipWs(text)
    IN s # <<>> /\ ValueEnd(s, 1) = Len(s) + 1

\* The decoded value, represented by its whitespace-free token sequence.
JsonLoads(text) == SkipWs(text)

\* The decoded value is a JSON object (a Python dict).
IsJsonObject(value) == value # <<>> /\ value[1] = "{"

\* re.search(r'\{[^{}]*(?:\{[^{}]*\}[^{}]*)*\}', ...): end index of the match
\* that starts at the "{" at position i, or 0.  depth is 1 inside the outer
\* braces and 2 inside an inner pair; a third level has no match from i.
RECURSIVE RegexScan(_, _, _)
RegexScan(s, j, depth) ==
    IF j > Len(s) THEN 0
    ELSE IF s[j] = "{" THEN (IF depth = 1 THEN RegexScan(s, j + 1, 2) ELSE 0)
    ELSE IF s[j] = "}" THEN (IF depth = 1 THEN j ELSE RegexScan(s, j + 1, 1))
    ELSE RegexScan(s, j + 1, depth)

RegexMatchEnd(s, i) == IF s[i] = "{" THEN RegexScan(s, i + 1, 1) ELSE 0

\* re.search scans start positions left to right: the leftmost match.
RegexStarts(s) == {i \in 1..Len(s) : RegexMatchEnd(s, i) # 0}

RegexSearch(s) ==
    IF RegexStarts(s) = {} THEN <<>>
    ELSE LET i == CHOOSE a \in RegexStarts(s) : \A b \in RegexStarts(s) : a <= b
         IN SubSeq(s, i, RegexMatchEnd(s, i))

HasRegexMatch(s) == RegexStarts(s) # {}

\* response.find('{'): index of the first "{", or 0 (Python's -1).
FindBrace(s) ==
    IF \E i \in 1..Len(s) : s[i] = "{"
    THEN CHOOSE i \in 1..Len(s) : s[i] = "{" /\ \A j \in 1..(i - 1) : s[j] # "{"
    ELSE 0

\* The brace-counting loop: the index of the "}" that brings brace_count
\* back to zero, or start - 1 when it never does (end_idx stays start_idx,
\* so the slice is empty).
RECURSIVE BraceScan(_, _, _, _)
BraceScan(s, start, j, count) ==
    IF j > Len(s) THEN start - 1
    ELSE IF s[j] = "{" THEN BraceScan(s, start, j + 1, count + 1)
    ELSE IF s[j] = "}"
         THEN (IF count - 1 = 0 THEN j ELSE BraceScan(s, start, j + 1, count - 1))
    ELSE BraceScan(s, start, j + 1, count)

BraceSlice(s) ==
    LET start == FindBrace(s)
    IN Slice(s, start, BraceScan(s, start, start, 0))

Returned(strategy, value) ==
    [raised |-> FALSE, strategy |-> strategy, value |-> value, text |-> <<>>]

\* Mutant: all strategies failed and an empty object is returned silently.
ReturnedEmptyObject(response) == Returned(3, <<"{", "}">>)

\* raise ValueError(f"Could not extract valid JSON from LLM response: {response}")
RaisedValueError(response) ==
    [raised |-> TRUE, strategy |-> 0, value |-> <<>>, text |-> response]

ParseDirect(response) == Returned(1, JsonLoads(Strip(response)))

ParseRegex(response) == Returned(2, JsonLoads(RegexSearch(response)))

ParseBraceScan(response) == Returned(3, JsonLoads(BraceSlice(response)))

\* ProfileBuilderAgent._parse_llm_response
ParseLLMResponse(response) ==
    IF JsonLoadsOk(Strip(response)) THEN ParseDirect(response)
    ELSE IF HasRegexMatch(response) /\ JsonLoadsOk(RegexSearch(response))
         THEN ParseRegex(response)
    ELSE IF FindBrace(response) # 0 /\ JsonLoadsOk(BraceSlice(response))
         THEN ParseBraceScan(response)
    ELSE RaisedValueError(response)


(***************************************************************************)
(* BUDGET NORMALIZATION                                                    *)
(*                                                                         *)
(* A budget string is a sequence of one-character strings.                 *)
(***************************************************************************)
MaxBudgetLen == 3

Digit == {"0", "1", "2", "3", "4", "5", "6", "7", "8", "9"}

DigitValue(c) ==
    CASE c = "0" -> 0 [] c = "1" -> 1 [] c = "2" -> 2 [] c = "3" -> 3 [] c = "4" -> 4
      [] c = "5" -> 5 [] c = "6" -> 6 [] c = "7" -> 7 [] c = "8" -> 8 [] c = "9" -> 9

DigitChar(d) == <<"0", "1", "2", "3", "4", "5", "6", "7", "8", "9">>[d + 1]

\* Characters of the short budget strings explored exhaustively.
BudgetChar == {"2", "5", "0", "k", ",", "x"}

UpperLetters ==
    <<"A", "B", "C", "D", "E", "F", "G", "H", "I", "J", "K", "L", "M",
      "N", "O", "P", "Q", "R", "S", "T", "U", "V", "W", "X", "Y", "Z">>

LowerLetters ==
    <<"a", "b", "c", "d", "e", "f", "g", "h", "i", "j", "k", "l", "m",
      "n", "o", "p", "q", "r", "s", "t", "u", "v", "w", "x", "y", "z">>

IsUpperLetter(c) == \E i \in 1..26 : UpperLetters[i] = c
IsLowerLetter(c) == \E i \in 1..26 : LowerLetters[i] = c
LetterIndex(c, letters) == CHOOSE i \in 1..26 : letters[i] = c

\* str.upper() and str.lower(), one character at a time.
UpperChar(c) ==
    IF IsLowerLetter(c) THEN UpperLetters[LetterIndex(c, LowerLetters)] ELSE c

LowerChar(c) ==
    IF IsUpperLetter(c) THEN LowerLetters[LetterIndex(c, UpperLetters)] ELSE c

Upper(s) == [i \in 1..Len(s) |-> UpperChar(s[i])]
Lower(s) == [i \in 1..Len(s) |-> LowerChar(s[i])]

\* Python's  sub in s  on strings.
ContainsSub(s, sub) ==
    \E i \in 1..(Len(s) - Len(sub) + 1) : SubSeq(s, i, i + Len(sub) - 1) = sub

NumberChar(c) == c \in Digit \cup {","}

\* re.findall(r'[\d,]+', budget)[0]: the first maximal run of digits and commas.
HasNumbers(s) == \E i \in 1..Len(s) : NumberChar(s[i])

FirstNumbers(s) ==
    LET from == CHOOSE i \in 1..Len(s) :
                    NumberChar(s[i]) /\ \A h \in 1..(i - 1) : ~NumberChar(s[h])
        to == CHOOSE j \in from..Len(s) :
                    /\ \A m \in from..j : NumberChar(s[m])
                    /\ (j = Len(s) \/ ~NumberChar(s[j + 1]))
    IN SubSeq(s, from, to)

\* numbers[0].replace(',', '')
RemoveCommas(s) == SelectSeq(s, LAMBDA c : c # ",")

\* str.isdigit(): non-empty and all digits.
IsDigitStr(s) == s # <<>> /\ \A i \in 1..Len(s) : s[i] \in Digit

RECURSIVE StrToInt(_)
StrToInt(s) ==
    IF s = <<>> THEN 0
    ELSE 10 * StrToInt(SubSeq(s, 1, Len(s) - 1)) + DigitValue(s[Len(s)])

RECURSIVE IntToStr(_)
IntToStr(n) ==
    IF n < 10 THEN <<DigitChar(n)>>
    ELSE Append(IntToStr(n \div 10), DigitChar(n % 10))

BudgetStored(value) == [raised |-> FALSE, error |-> "", value |-> value]
BudgetRaised(error) == [raised |-> TRUE, error |-> error, value |-> <<>>]

\* Mutant: the amount is rendered without applying a format to a str.
FormatAmountPlain(amount) == BudgetStored(<<"L", "K", "R", " ">> \o amount)

\* f"LKR {amount:,}" where amount is a str: the ',' format option is not
\* defined for str and Python raises
\* ValueError("Cannot specify ',' with 's'.").
FormatAmount(amount) == BudgetRaised("ValueError: Cannot specify ',' with 's'.")

\* str(int(float(amount) * 1000)); float('') raises ValueError.
ScaleThousand(amount) ==
    IF amount = <<>>
    THEN BudgetRaised("ValueError: could not convert string to float")
    ELSE BudgetStored(IntToStr(StrToInt(amount) * 1000))

\* ProfileBuilderAgent._normalize_budget, on the value of
\* resources['monthly_budget'] ('' when the key is absent).
NormalizeBudget(budget) ==
    IF budget = <<>> \/ ContainsSub(Upper(budget), <<"L", "K", "R">>)
    THEN BudgetStored(budget)
    ELSE IF ~HasNumbers(budget) THEN BudgetStored(budget)
    ELSE LET amount == RemoveCommas(FirstNumbers(budget))
             scaled == IF ContainsSub(Lower(budget), <<"k">>)
                       THEN ScaleThousand(amount)
                       ELSE BudgetStored(amount)
         IN IF scaled.raised THEN scaled
            ELSE IF IsDigitStr(scaled.value) THEN FormatAmount(scaled.value)
            ELSE BudgetStored(budget)

(***************************************************************************)
(* Specification of budget normalization: every short string over          *)
(* BudgetChar and a few longer budgets, normalized once and then again.    *)
(***************************************************************************)
Canonical30000 == <<"L", "K", "R", " ", "3", "0", ",", "0", "0", "0">>

LongBudgets ==
    { Canonical30000,
      <<"L", "K", "R", " ", "2", "5", ",", "0", "0", "0">>,
      <<"l", "k", "r", " ", "5", "k">>,
      <<"R", "s", " ", "5", "0", "0", "0">>,
      <<"1", "2", "5", "K">>,
      <<"3", "0", ",", "0", "0", "0">> }

NoBudgetResult == BudgetStored(<<>>)

BudgetIdle == bIn = <<>> /\ bOut = NoBudgetResult /\ bPhase = "idle"

InitBudget ==
    /\ bIn \in SeqsUpTo(BudgetChar, MaxBudgetLen) \cup LongBudgets
    /\ bOut = NoBudgetResult
    /\ bPhase = "ready"

\* First call: resources['monthly_budget'] holds bIn.
NormalizeOnce ==
    /\ bPhase = "ready"
    /\ bOut' = NormalizeBudget(bIn)
    /\ bPhase' = "once"
    /\ UNCHANGED bIn
    /\ UNCHANGED <<parserVars, gatewayVars, pipelineVars, laterVars>>

\* Second call on the value the first call stored.
NormalizeTwice ==
    /\ bPhase = "once"
    /\ ~bOut.raised
    /\ bOut' = NormalizeBudget(bOut.value)
    /\ bPhase' = "twice"
    /\ UNCHANGED bIn
    /\ UNCHANGED <<parserVars, gatewayVars, pipelineVars, laterVars>>

NextBudget == NormalizeOnce \/ NormalizeTwice


(***************************************************************************)
(* LLM GATEWAY: LLMClient.generate_completion                              *)
(***************************************************************************)
max_retries == 3
retry_delay == 1

\* What one request to the backend can end in.
BackendFailure == {"ConnectionError", "Timeout", "APIError"}
BackendText == {"json text", "prose"}

\* messages: the system message (the given one, or the JSON instruction when
\* json_format is set), then the user prompt.
BuildMessages(system_message, json_format) ==
    (IF system_message # ""
     THEN <<[role |-> "system", content |-> system_message]>>
     ELSE IF json_format
          THEN <<[role |-> "system", content |-> "respond with valid JSON"]>>
          ELSE <<>>)
    \o <<[role |-> "user", content |-> "prompt"]>>

\* for attempt in range(self.max_retries)
LoopContinues(attempt) == attempt < max_retries

\* Mutant: the last attempt is recognised one iteration too early.
IsLastAttemptEarly(attempt) == attempt = max_retries - 2

\* Mutant: no attempt is recognised as the last one.
IsLastAttemptNever(attempt) == FALSE

\* if attempt == self.max_retries - 1: raise
IsLastAttempt(attempt) == attempt = max_retries - 1

\* Mutant: the error of the last request is raised again as it is.
RaisedKindOfFailure(e) == e

\* raise Exception(f"LLM API call failed after {self.max_retries} attempts:
\* {str(e)}"): whatever the last request failed with, the class is Exception.
RaisedKind(e) == "Exception"

GatewayIdle ==
    /\ gMessages = <<>>
    /\ gAttempt = 0
    /\ gCalls = 0
    /\ gFailures = <<>>
    /\ gSlept = 0
    /\ gState = "idle"
    /\ gResult = ""
    /\ gErrorKind = ""

InitGateway ==
    /\ \E system_message \in {"", "system prompt"}, json_format \in BOOLEAN :
           gMessages = BuildMessages(system_message, json_format)
    /\ gAttempt = 0
    /\ gCalls = 0
    /\ gFailures = <<>>
    /\ gSlept = 0
    /\ gState = "attempt"
    /\ gResult = ""
    /\ gErrorKind = ""

\* await self._call_openai_api(...): the request goes out.
SendRequest ==
    /\ gState = "attempt"
    /\ LoopContinues(gAttempt)
    /\ gCalls' = gCalls + 1
    /\ gState' = "inflight"
    /\ UNCHANGED <<gMessages, gAttempt, gFailures, gSlept, gResult, gErrorKind>>
    /\ UNCHANGED <<parserVars, budgetVars, pipelineVars, laterVars>>

\* return response.choices[0].message.content.strip()
RequestSucceeds ==
    /\ gState = "inflight"
    /\ \E text \in BackendText : gResult' = text
    /\ gState' = "returned"
    /\ UNCHANGED <<gMessages, gAttempt, gCalls, gFailures, gSlept, gErrorKind>>
    /\ UNCHANGED <<parserVars, budgetVars, pipelineVars, laterVars>>

\* except Exception as e: log the failure; on the last attempt raise
\* Exception("LLM API call failed after 3 attempts: ..."), otherwise sleep.
RequestFails ==
    /\ gState = "inflight"
    /\ \E e \in BackendFailure :
           /\ gFailures' = Append(gFailures, e)
           /\ IF IsLastAttempt(gAttempt)
              THEN /\ gState' = "raised"
                   /\ gResult' = e
                   /\ gErrorKind' = RaisedKind(e)
              ELSE /\ gState' = "sleeping"
                   /\ UNCHANGED <<gResult, gErrorKind>>
    /\ UNCHANGED <<gMessages, gAttempt, gCalls, gSlept>>
    /\ UNCHANGED <<parserVars, budgetVars, pipelineVars, laterVars>>

\* await asyncio.sleep(self.retry_delay * (attempt + 1)), then the next
\* iteration of the loop.
SleepThenRetry ==
    /\ gState = "sleeping"
    /\ gSlept' = gSlept + retry_delay * (gAttempt + 1)
    /\ gAttempt' = gAttempt + 1
    /\ gState' = "attempt"
    /\ UNCHANGED <<gMessages, gCalls, gFailures, gResult, gErrorKind>>
    /\ UNCHANGED <<parserVars, budgetVars, pipelineVars, laterVars>>

NextGateway ==
    \/ SendRequest
    \/ RequestSucceeds
    \/ RequestFails
    \/ SleepThenRetry


(***************************************************************************)
(* PROFILE PIPELINE: ProfileBuilderAgent.build_profile                     *)
(*                                                                         *)
(* A Python dict is a function from its keys; .get, item assignment and    *)
(* .setdefault are Get, Put and SetDefault.  Free text is a sequence of    *)
(* terms; a budget is a character sequence; a list-typed field carries the *)
(* kind of JSON value the LLM put there.                                   *)
(***************************************************************************)
MaxInputTerms == 1

EmptyDict == <<>>

Get(d, k, default) == IF k \in DOMAIN d THEN d[k] ELSE default

Put(d, k, v) == [x \in DOMAIN d \cup {k} |-> IF x = k THEN v ELSE d[x]]

SetDefault(d, k, v) == IF k \in DOMAIN d THEN d ELSE Put(d, k, v)

\* Python's None where a string is expected.
PyNone == "<None>"

ListOf(items) == [kind |-> "list", items |-> items]
ObjectOf(keys) == [kind |-> "object", items |-> keys]

\* bool(value) of a list-typed field.
Truthy(v) == v.items # <<>>

\* self.business_types: the keyword lists, flattened in dict order.

BusinessTypeKeywords ==
    <<"bakery", "restaurant", "cafe", "catering", "food truck", "hotel",
       "clothing", "electronics", "jewelry", "books", "cosmetics",
       "pharmacy", "salon", "repair", "cleaning", "consulting", "tutoring",
       "fitness", "clinic", "dental", "physiotherapy", "veterinary",
       "school", "training center", "language classes", "driving school",
       "software", "web development", "IT support", "digital marketing">>

\* str.lower() on the strings in use.
LowerStr(s) ==
    CASE s = "(Ages 18-45, working professionals and families)" -> "(ages 18-45, working professionals and families)"
      [] s = "(Primarily women 20-50)" -> "(primarily women 20-50)"
      [] s = "Bakery" -> "bakery"
      [] s = "Beauty Salon" -> "beauty salon"
      [] s = "General Business" -> "general business"
      [] s = "Restaurant" -> "restaurant"
      [] s = "Salon" -> "salon"
      [] s = "Tech Startup" -> "tech startup"
      [] s = "Women 25-45" -> "women 25-45"
      [] s = "Young adults" -> "young adults"
      [] OTHER -> s

\* str.title() on the strings in use.
TitleStr(s) ==
    CASE s = "bakery" -> "Bakery"
      [] s = "beauty salon" -> "Beauty Salon"
      [] s = "general business" -> "General Business"
      [] s = "restaurant" -> "Restaurant"
      [] s = "salon" -> "Salon"
      [] s = "tech startup" -> "Tech Startup"
      [] OTHER -> s

\* Python's  needle in hay  on strings: for each string in use, the words the
\* agent searches for that occur in it.
NeedlesIn(hay) ==
    CASE hay = "(Primarily women 20-50)" -> {"women"}
      [] hay = "(ages 18-45, working professionals and families)" -> {"age"}
      [] hay = "(primarily women 20-50)" -> {"women"}
      [] hay = "bakery" -> {"bakery"}
      [] hay = "beauty salon" -> {"salon", "beauty"}
      [] hay = "restaurant" -> {"restaurant"}
      [] hay = "salon" -> {"salon"}
      [] hay = "tech startup" -> {"tech"}
      [] hay = "women 25-45" -> {"women"}
      [] OTHER -> {}

\* The sinhala_mappings replacements applied to a lowercased term.
ReplaceMappedTerms(term) ==
    CASE term = "kade" -> "shop"
      [] term = "salon eka" -> "salon"
      [] OTHER -> term

Substr(needle, hay) == needle \in NeedlesIn(hay)

\* needle in text, for a text of several terms or parts.
InText(needle, text) == \E i \in 1..Len(text) : Substr(needle, text[i])

LowerText(text) == [i \in 1..Len(text) |-> LowerStr(text[i])]

Ok(p) == [raised |-> FALSE, error |-> "", profile |-> p]
Raised(e) == [raised |-> TRUE, error |-> e, profile |-> EmptyDict]

\* ProfileBuilderAgent._preprocess_input: lower-case, then the mapped
\* phrases replaced.
PreprocessInput(raw) == [i \in 1..Len(raw) |-> ReplaceMappedTerms(LowerStr(raw[i]))]

\* ProfileBuilderAgent._classify_business_type
ClassifyBusinessType(business_type, input_text) ==
    LET input_lower == LowerText(input_text)
        hits == {i \in 1..Len(BusinessTypeKeywords) :
                    \/ InText(BusinessTypeKeywords[i], input_lower)
                    \/ Substr(BusinessTypeKeywords[i], business_type)}
    IN IF hits # {}
       THEN TitleStr(BusinessTypeKeywords[CHOOSE i \in hits : \A j \in hits : i <= j])
       ELSE IF business_type # "" THEN TitleStr(business_type) ELSE PyNone

BusinessTypeOf(p) == Get(Get(p, "business_identity", EmptyDict), "business_type", "")

\* _enhance_profile, business type: None.lower() raises AttributeError.
EnhanceBusinessType(p, original_input) ==
    IF BusinessTypeOf(p) = PyNone
    THEN Raised("AttributeError: 'NoneType' object has no attribute 'lower'")
    ELSE LET enhanced_type ==
                 ClassifyBusinessType(LowerStr(BusinessTypeOf(p)), original_input)
         IN IF enhanced_type # PyNone
            THEN Ok(Put(p, "business_identity",
                        Put(Get(p, "business_identity", EmptyDict),
                            "business_type", enhanced_type)))
            ELSE Ok(p)

\* ProfileBuilderAgent._enhance_target_audience
EnhanceTargetAudience(p, input_text) ==
    LET p1 == SetDefault(p, "target_audience", EmptyDict)
        audience == p1["target_audience"]
        demographics == Get(audience, "demographics", <<>>)
        business_type == LowerStr(BusinessTypeOf(p1))
        appended(note) ==
            Put(p1, "target_audience",
                Put(audience, "demographics", Append(demographics, note)))
    IN IF demographics # <<>> /\ ~InText("specific", LowerText(demographics))
       THEN IF Substr("bakery", business_type) \/ Substr("restaurant", business_type)
            THEN IF ~InText("age", demographics)
                 THEN appended("(Ages 18-45, working professionals and families)")
                 ELSE p1
            ELSE IF Substr("salon", business_type) \/ Substr("beauty", business_type)
                 THEN IF ~InText("women", LowerText(demographics))
                      THEN appended("(Primarily women 20-50)")
                      ELSE p1
                 ELSE p1
       ELSE p1

AnyIn(words, hay) == \E w \in words : Substr(w, hay)

\* Mutant: the recommended platforms replace whatever list is there.
EnhancePlatformPreferencesAlways(p) ==
    LET prefs == Get(p, "platform_preferences", EmptyDict)
        business_type == LowerStr(BusinessTypeOf(p))
        recommended ==
            IF AnyIn({"restaurant", "bakery", "food"}, business_type)
            THEN <<"Facebook", "Instagram", "WhatsApp">>
            ELSE IF AnyIn({"salon", "beauty", "fashion"}, business_type)
            THEN <<"Instagram", "Facebook", "TikTok">>
            ELSE IF AnyIn({"tech", "service", "consulting"}, business_type)
            THEN <<"LinkedIn", "Facebook", "WhatsApp">>
            ELSE <<"Facebook", "Instagram">>
    IN Put(p, "platform_preferences", Put(prefs, "preferred_platforms", recommended))

\* ProfileBuilderAgent._enhance_platform_preferences
EnhancePlatformPreferences(p) ==
    LET prefs == SetDefault(Get(p, "platform_preferences", EmptyDict),
                            "preferred_platforms", <<>>)
        business_type == LowerStr(BusinessTypeOf(p))
        recommended ==
            IF AnyIn({"restaurant", "bakery", "food"}, business_type)
            THEN <<"Facebook", "Instagram", "WhatsApp">>
            ELSE IF AnyIn({"salon", "beauty", "fashion"}, business_type)
            THEN <<"Instagram", "Facebook", "TikTok">>
            ELSE IF AnyIn({"tech", "service", "consulting"}, business_type)
            THEN <<"LinkedIn", "Facebook", "WhatsApp">>
            ELSE <<"Facebook", "Instagram">>
    IN Put(p, "platform_preferences",
           IF prefs["preferred_platforms"] = <<>>
           THEN Put(prefs, "preferred_platforms", recommended)
           ELSE prefs)

\* ProfileBuilderAgent._normalize_budget on the profile dict.
NormalizeBudgetIn(p) ==
    LET resources == Get(p, "resources", EmptyDict)
        normalized == NormalizeBudget(Get(resources, "monthly_budget", <<>>))
    IN IF normalized.raised THEN Raised(normalized.error)
       ELSE Ok(Put(p, "resources",
                   IF "monthly_budget" \in DOMAIN resources
                   THEN Put(resources, "monthly_budget", normalized.value)
                   ELSE resources))

\* Mutant: the audience is enriched before the business type is classified.
EnhanceProfileAudienceFirst(profile_data, original_input) ==
    IF BusinessTypeOf(profile_data) = PyNone
    THEN Raised("AttributeError: 'NoneType' object has no attribute 'lower'")
    ELSE LET typed == EnhanceBusinessType(
                          EnhanceTargetAudience(profile_data, original_input),
                          original_input)
         IN IF typed.raised THEN typed
            ELSE NormalizeBudgetIn(EnhancePlatformPreferences(typed.profile))

\* ProfileBuilderAgent._enhance_profile
EnhanceProfile(profile_data, original_input) ==
    LET typed == EnhanceBusinessType(profile_data, original_input)
    IN IF typed.raised THEN typed
       ELSE NormalizeBudgetIn(
                EnhancePlatformPreferences(
                    EnhanceTargetAudience(typed.profile, original_input)))

Assume(p, key, note) ==
    Put(p, "missing_data_assumptions",
        Put(Get(p, "missing_data_assumptions", EmptyDict), key, note))

SetIn(p, group, field, value) == Put(p, group, Put(Get(p, group, EmptyDict), field, value))

\* Mutant: the default is applied without looking at the present value.
FillBusinessStageAlways(p) ==
    Assume(SetIn(p, "business_identity", "business_stage", "Growing"),
           "business_stage", "Assumed \"Growing\" as most SMEs are in growth phase")

\* _fill_missing_data: business stage
FillBusinessStage(p) ==
    IF Get(Get(p, "business_identity", EmptyDict), "business_stage", "") = ""
    THEN Assume(SetIn(p, "business_identity", "business_stage", "Growing"),
                "business_stage", "Assumed \"Growing\" as most SMEs are in growth phase")
    ELSE p

\* Mutant: the default is set and no assumption is recorded.
FillTeamStructureSilent(p) ==
    IF Get(Get(p, "resources", EmptyDict), "team_or_solo", "") = ""
    THEN SetIn(p, "resources", "team_or_solo", "Solo or small team")
    ELSE p

\* _fill_missing_data: team structure
FillTeamStructure(p) ==
    IF Get(Get(p, "resources", EmptyDict), "team_or_solo", "") = ""
    THEN Assume(SetIn(p, "resources", "team_or_solo", "Solo or small team"),
                "team_structure", "Assumed small team structure typical for SMEs")
    ELSE p

\* _fill_missing_data: content capacity
FillContentCapacity(p) ==
    IF Get(Get(p, "resources", EmptyDict), "content_capacity", "") = ""
    THEN Assume(SetIn(p, "resources", "content_capacity",
                      "Limited - needs simple solutions"),
                "content_capacity", "Assumed limited capacity typical for SMEs")
    ELSE p

\* _fill_missing_data: default strengths of a food business
FillStrengths(p) ==
    LET business_type == LowerStr(BusinessTypeOf(p))
    IN IF ~Truthy(Get(p, "strengths", ListOf(<<>>)))
          /\ (Substr("restaurant", business_type) \/ Substr("bakery", business_type))
       THEN Assume(Put(p, "strengths",
                       ListOf(<<"Quality products", "Local customer base">>)),
                   "strengths", "Added typical F&B business strengths")
       ELSE p

\* ProfileBuilderAgent._fill_missing_data
FillMissingData(p) ==
    FillStrengths(
        FillContentCapacity(
            FillTeamStructure(
                FillBusinessStage(SetDefault(p, "missing_data_assumptions", EmptyDict)))))

\* The top-level groups of the canonical BusinessProfile.
GroupKeys ==
    {"business_identity", "resources", "goals", "target_audience",
     "platform_preferences", "strengths", "challenges", "opportunities",
     "market_context", "brand_personality", "missing_data_assumptions",
     "profile_metadata"}

ListGroups == {"strengths", "challenges", "opportunities"}

DefaultGroup(k) == IF k \in ListGroups THEN ListOf(<<>>) ELSE EmptyDict

\* BusinessProfile(**complete_profile).dict(): a list field that holds
\* neither a list nor a string cannot be coerced; every declared group is
\* present in the result, absent ones with their defaults.
ValidateProfile(p) ==
    IF \E k \in ListGroups \cap DOMAIN p : p[k].kind # "list"
    THEN Raised("SchemaValidationError")
    ELSE Ok([k \in GroupKeys |-> IF k \in DOMAIN p THEN p[k] ELSE DefaultGroup(k)])

\* ProfileBuilderAgent._detect_language: no term in use is in Sinhala script.
DetectLanguage(text) == "English"

\* ProfileBuilderAgent._get_processing_notes; every input in use is shorter
\* than 50 characters.
ProcessingNotes(original_input, final_profile) ==
    LET assumptions == Get(final_profile, "missing_data_assumptions", EmptyDict)
    IN <<[note |-> "Input was brief - made several assumptions", count |-> 0]>>
       \o (IF DOMAIN assumptions # {}
           THEN <<[note |-> "Made N intelligent assumptions",
                   count |-> Cardinality(DOMAIN assumptions)]>>
           ELSE <<>>)

\* Mutant: the dict that went into validation is returned instead of the
\* validated one.
FinalProfileUnvalidated(validated, complete, original_input) ==
    Put(complete, "profile_metadata",
        [agent_version |-> "1.0",
         input_language |-> DetectLanguage(original_input),
         processing_notes |-> ProcessingNotes(original_input, complete)])

\* build_profile, step 6: final_profile = validated_profile.dict() with
\* profile_metadata set (the creation time stamp is left out).
FinalProfile(validated, complete, original_input) ==
    Put(validated, "profile_metadata",
        [agent_version |-> "1.0",
         input_language |-> DetectLanguage(original_input),
         processing_notes |-> ProcessingNotes(original_input, validated)])

\* The fallback of _extract_profile_data.
FallbackProfile ==
    [business_identity |->
        [business_name |-> "Unknown Business",
         business_type |-> "General Business",
         industry |-> "Unknown"]]

Extracted(kind, p, caught) ==
    [raised |-> FALSE, error |-> "", kind |-> kind, profile |-> p, caught |-> caught]

\* Mutant: the error of the LLM call or of the parser is passed on.
ReraiseLLMError(e) ==
    [raised |-> TRUE, error |-> e, kind |-> "none", profile |-> EmptyDict,
     caught |-> <<>>]

\* _extract_profile_data, except Exception: log and return the fallback.
HandleLLMError(e) == Extracted("fallback", FallbackProfile, <<e>>)

\* ProfileBuilderAgent._extract_profile_data.  get_llm_client() is called
\* outside the try block; the call and the parse are inside it.
ExtractProfileData(o) ==
    IF o.client # "ok"
    THEN [raised |-> TRUE, error |-> o.client, kind |-> "none",
          profile |-> EmptyDict, caught |-> <<>>]
    ELSE IF o.call # "text" THEN HandleLLMError(o.call)
    ELSE LET parsed == ParseLLMResponse(o.text)
         IN IF parsed.raised THEN HandleLLMError("ValueError: could not extract JSON")
            ELSE IF IsJsonObject(parsed.value) THEN Extracted("object", o.object, <<>>)
            ELSE Extracted("nonobject", EmptyDict, <<>>)

\* Mutant: the cause is raised to the caller as it is.
PassError(e) == [status |-> "raised", type |-> e, cause |-> e, tag |-> "", profile |-> EmptyDict]

\* build_profile, except Exception as e:
\*     raise Exception(f"Failed to build business profile: {str(e)}")
\* The message holds the cause's message and no stage name.
WrapError(e) ==
    [status |-> "raised", type |-> "Exception: Failed to build business profile",
     cause |-> e, tag |-> "", profile |-> EmptyDict]

ReturnProfile(p) ==
    [status |-> "returned", type |-> "", cause |-> "", tag |-> "", profile |-> p]

NoOutcome == [client |-> "", call |-> "", text |-> <<>>, object |-> EmptyDict]
Running == [status |-> "running", type |-> "", cause |-> "", tag |-> "", profile |-> EmptyDict]

(***************************************************************************)
(* Inputs of a run                                                         *)
(***************************************************************************)
RawTerm == {"Bakery", "salon eka", "kade"}

Chars25k == <<"2", "5", "k">>

\* business_identity objects the LLM may produce (absent: no such key).
IdentityChoice ==
    { [business_type |-> "Restaurant"],
      [business_type |-> "Beauty Salon", business_stage |-> "Established"],
      [business_type |-> "", business_stage |-> ""],
      [business_type |-> PyNone] }

ResourcesChoice ==
    { [monthly_budget |-> Chars25k],
      [monthly_budget |-> Canonical30000, team_or_solo |-> "Team of 5",
       content_capacity |-> "High"],
      [monthly_budget |-> <<>>, team_or_solo |-> ""] }

AudienceChoice == { [demographics |-> <<"Young adults">>] }

PlatformChoice == { [preferred_platforms |-> <<"TikTok">>] }

StrengthsChoice == { ListOf(<<>>), ListOf(<<"Great taste">>), ObjectOf(<<"quality">>) }

AssumptionsChoice ==
    { [business_stage |-> "LLM: looks like an early-stage business"],
      [location |-> "LLM: assumed Colombo"] }

\* A dict with key k for every group the LLM chose to include.
Optional(k, choices) == {EmptyDict} \cup {[x \in {k} |-> c] : c \in choices}

Merge(d, e) == [x \in DOMAIN d \cup DOMAIN e |-> IF x \in DOMAIN d THEN d[x] ELSE e[x]]

LLMObjects ==
    { Merge(a, Merge(b, Merge(c, Merge(d, Merge(e, f))))) :
        a \in Optional("business_identity", IdentityChoice),
        b \in Optional("resources", ResourcesChoice),
        c \in Optional("target_audience", AudienceChoice),
        d \in Optional("platform_preferences", PlatformChoice),
        e \in Optional("strengths", StrengthsChoice),
        f \in Optional("missing_data_assumptions", AssumptionsChoice) }

\* Response texts: a clean object, an object inside prose, prose only, an
\* object cut off before its closing brace, a bare non-object value.
CleanObject == <<"{", "k", "{", "k", "n", "}", "}">>
WrappedObject == <<"w", " ">> \o CleanObject \o <<" ", "w">>
ObjectTexts == {CleanObject, WrappedObject}
OtherTexts == {<<"w", " ", "w">>, <<"{", "k", "{", "k", "n", "}">>, <<"n">>}

\* What the awaited call can raise; AttributeError is what the LLMClient of
\* app/utils/llm.py gives, which has no method generate.
LLMCallError == {"ConnectionFailed", "Timeout", "GenerationFailed", "AttributeError"}

LLMOutcomes ==
    {[client |-> "ValueError: OPENAI_API_KEY environment variable is required",
      call |-> "", text |-> <<>>, object |-> EmptyDict]}
    \cup {[client |-> "ok", call |-> e, text |-> <<>>, object |-> EmptyDict] :
             e \in LLMCallError}
    \cup {[client |-> "ok", call |-> "text", text |-> t, object |-> EmptyDict] :
             t \in OtherTexts}
    \cup {[client |-> "ok", call |-> "text", text |-> t, object |-> obj] :
             t \in ObjectTexts, obj \in LLMObjects}

Stages ==
    <<"Received", "Normalized", "Extracted(LLM)", "Enhanced", "GapFilled",
      "Validated", "Done">>

PipelineIdle ==
    /\ pc = "idle"
    /\ raw_input = <<>>
    /\ normalized_input = <<>>
    /\ outcome = NoOutcome
    /\ extracted = "none"
    /\ profile = EmptyDict
    /\ before = EmptyDict
    /\ errors = <<>>
    /\ history = <<>>
    /\ result = Running

InitPipeline ==
    /\ pc = "Received"
    /\ raw_input \in SeqsUpTo(RawTerm, MaxInputTerms)
    /\ normalized_input = <<>>
    /\ outcome = NoOutcome
    /\ extracted = "none"
    /\ profile = EmptyDict
    /\ before = EmptyDict
    /\ errors = <<>>
    /\ history = <<"Received">>
    /\ result = Running

OnlyPipeline == UNCHANGED <<parserVars, budgetVars, gatewayVars, laterVars>>

\* The except clause of build_profile: the error raised while entering
\* `stage` is logged and wrapped.
FailRun(stage, e) ==
    /\ pc' = "Failed"
    /\ history' = Append(history, "Failed")
    /\ errors' = Append(errors, [error |-> e, stage |-> stage, caught_by |-> "build_profile"])
    /\ result' = WrapError(e)

Enter(stage) ==
    /\ pc' = stage
    /\ history' = Append(history, stage)

\* Step 1: normalized_input = self._preprocess_input(raw_input)
Preprocess ==
    /\ pc = "Received"
    /\ normalized_input' = PreprocessInput(raw_input)
    /\ Enter("Normalized")
    /\ UNCHANGED <<raw_input, outcome, extracted, profile, before, errors, result>>
    /\ OnlyPipeline

\* Step 2: profile_data = await self._extract_profile_data(...)
Extract ==
    /\ pc = "Normalized"
    /\ \E o \in LLMOutcomes :
         LET x == ExtractProfileData(o)
         IN /\ outcome' = o
            /\ before' = profile
            /\ IF x.raised
               THEN /\ FailRun("Extracted(LLM)", x.error)
                    /\ UNCHANGED <<extracted, profile>>
               ELSE /\ Enter("Extracted(LLM)")
                    /\ extracted' = x.kind
                    /\ profile' = x.profile
                    /\ errors' = errors \o
                          [i \in 1..Len(x.caught) |->
                              [error |-> x.caught[i], stage |-> "Extracted(LLM)",
                               caught_by |-> "_extract_profile_data"]]
                    /\ UNCHANGED result
    /\ UNCHANGED <<raw_input, normalized_input>>
    /\ OnlyPipeline

\* Step 3: enhanced_profile = self._enhance_profile(profile_data, normalized_input);
\* profile_data.copy() needs a dict.
Enhance ==
    /\ pc = "Extracted(LLM)"
    /\ before' = profile
    /\ LET x == IF extracted = "nonobject"
                THEN Raised("AttributeError: object has no attribute 'copy'")
                ELSE EnhanceProfile(profile, normalized_input)
       IN IF x.raised
          THEN FailRun("Enhanced", x.error) /\ UNCHANGED profile
          ELSE Enter("Enhanced") /\ profile' = x.profile /\ UNCHANGED <<errors, result>>
    /\ UNCHANGED <<raw_input, normalized_input, outcome, extracted>>
    /\ OnlyPipeline

\* Step 4: complete_profile = self._fill_missing_data(enhanced_profile)
GapFill ==
    /\ pc = "Enhanced"
    /\ before' = profile
    /\ profile' = FillMissingData(profile)
    /\ Enter("GapFilled")
    /\ UNCHANGED <<raw_input, normalized_input, outcome, extracted, errors, result>>
    /\ OnlyPipeline

\* Step 5: validated_profile = BusinessProfile(**complete_profile)
Validate ==
    /\ pc = "GapFilled"
    /\ IF ValidateProfile(profile).raised
       THEN FailRun("Validated", ValidateProfile(profile).error)
       ELSE Enter("Validated") /\ UNCHANGED <<errors, result>>
    /\ UNCHANGED <<raw_input, normalized_input, outcome, extracted, profile, before>>
    /\ OnlyPipeline

\* Step 6: the metadata is added and final_profile is returned.
Finish ==
    /\ pc = "Validated"
    /\ before' = profile
    /\ profile' = FinalProfile(ValidateProfile(profile).profile, profile, raw_input)
    /\ result' = ReturnProfile(profile')
    /\ Enter("Done")
    /\ UNCHANGED <<raw_input, normalized_input, outcome, extracted, errors>>
    /\ OnlyPipeline

Next == Preprocess \/ Extract \/ Enhance \/ GapFill \/ Validate \/ Finish

\* LLM objects with no platform list or an empty one, for every stated
\* business type and a technology business besides.
PlatformEdgeObjects ==
    { Merge(a, b) :
        a \in Optional("business_identity",
                       IdentityChoice \cup {[business_type |-> "Tech Startup"]}),
        b \in { [platform_preferences |-> [preferred_platforms |-> <<>>]],
                [platform_preferences |-> EmptyDict] } }

EnhanceObjects == LLMObjects \cup PlatformEdgeObjects

\* A run that has just extracted an object from a clean LLM response: the
\* states from which the enhancer step alone is exercised.
InitEnhance ==
    /\ pc = "Extracted(LLM)"
    /\ raw_input \in SeqsUpTo(RawTerm, MaxInputTerms)
    /\ normalized_input = PreprocessInput(raw_input)
    /\ outcome \in {[client |-> "ok", call |-> "text", text |-> CleanObject,
                     object |-> obj] : obj \in EnhanceObjects}
    /\ extracted = "object"
    /\ profile = outcome.object
    /\ before = EmptyDict
    /\ errors = <<>>
    /\ history = <<"Received", "Normalized", "Extracted(LLM)">>
    /\ result = Running

NextEnhance == Enhance

(***************************************************************************)
(* LEXICAL NORMALIZER: ProfileBuilderAgent._preprocess_input on strings of *)
(* characters.                                                             *)
(***************************************************************************)
MaxTextLen == 4

\* self.sinhala_mappings, in dict order: <<phrase, replacement>>.
sinhala_mappings ==
    << <<<<"a", "w", "a", "r", "e", "n", "e", "s", "s", " ", "e", "k", "a", "k", " ", "o", "n", "i">>,
        <<"b", "r", "a", "n", "d", " ", "a", "w", "a", "r", "e", "n", "e", "s", "s">>>>,
       <<<<"s", "a", "l", "e", "s", " ", "w", "a", "d", "a", "k", "a", "r", "a", "n", "n", "a", " ", "o", "n", "i">>,
        <<"i", "n", "c", "r", "e", "a", "s", "e", " ", "s", "a", "l", "e", "s">>>>,
       <<<<"c", "u", "s", "t", "o", "m", "e", "r", "s", " ", "l", "a", " ", "g", "a", "n", "a">>,
        <<"c", "u", "s", "t", "o", "m", "e", "r", " ", "a", "c", "q", "u", "i", "s", "i", "t", "i", "o", "n">>>>,
       <<<<"r", "e", "a", "c", "h", " ", "e", "k", "a", " ", "w", "a", "d", "a", "k", "a", "r", "a", "n", "n", "a">>,
        <<"i", "n", "c", "r", "e", "a", "s", "e", " ", "r", "e", "a", "c", "h">>>>,
       <<<<"o", "n", "l", "i", "n", "e", " ", "p", "r", "e", "s", "e", "n", "c", "e", " ", "e", "k", "a", " ", "h", "a", "d", "a", "n", "n", "a">>,
        <<"b", "u", "i", "l", "d", " ", "o", "n", "l", "i", "n", "e", " ", "p", "r", "e", "s", "e", "n", "c", "e">>>>,
       <<<<"k", "a", "d", "e">>,
        <<"s", "h", "o", "p">>>>,
       <<<<"r", "e", "s", "t", "a", "u", "r", "a", "n", "t", " ", "e", "k", "a">>,
        <<"r", "e", "s", "t", "a", "u", "r", "a", "n", "t">>>>,
       <<<<"s", "a", "l", "o", "n", " ", "e", "k", "a">>,
        <<"s", "a", "l", "o", "n">>>>,
       <<<<"g", "a", "r", "a", "g", "e", " ", "e", "k", "a">>,
        <<"g", "a", "r", "a", "g", "e">>>>,
       <<<<"p", "h", "o", "t", "o", "s", " ", "n", "a", "n", "e">>,
        <<"l", "a", "c", "k", " ", "o", "f", " ", "c", "o", "n", "t", "e", "n", "t">>>>,
       <<<<"t", "i", "m", "e", " ", "n", "a", "n", "e">>,
        <<"n", "o", " ", "t", "i", "m", "e">>>>,
       <<<<"f", "o", "l", "l", "o", "w", "e", "r", "s", " ", "n", "a", "n", "e">>,
        <<"l", "o", "w", " ", "f", "o", "l", "l", "o", "w", "e", "r", "s">>>>,
       <<<<"e", "n", "g", "a", "g", "e", "m", "e", "n", "t", " ", "n", "a", "n", "e">>,
        <<"l", "o", "w", " ", "e", "n", "g", "a", "g", "e", "m", "e", "n", "t">>>>,
       <<<<"b", "u", "d", "g", "e", "t", " ", "n", "a", "n", "e">>,
        <<"l", "i", "m", "i", "t", "e", "d", " ", "b", "u", "d", "g", "e", "t">>>>,
       <<<<"h", "o", "n", "d", "a", "m", "a", " ", "q", "u", "a", "l", "i", "t", "y">>,
        <<"h", "i", "g", "h", " ", "q", "u", "a", "l", "i", "t", "y">>>>,
       <<<<"l", "o", "y", "a", "l", " ", "c", "u", "s", "t", "o", "m", "e", "r", "s">>,
        <<"c", "u", "s", "t", "o", "m", "e", "r", " ", "l", "o", "y", "a", "l", "t", "y">>>>,
       <<<<"g", "o", "o", "d", " ", "l", "o", "c", "a", "t", "i", "o", "n">>,
        <<"s", "t", "r", "a", "t", "e", "g", "i", "c", " ", "l", "o", "c", "a", "t", "i", "o", "n">>>>,
       <<<<"f", "b">>,
        <<"F", "a", "c", "e", "b", "o", "o", "k">>>>,
       <<<<"i", "g">>,
        <<"I", "n", "s", "t", "a", "g", "r", "a", "m">>>>,
       <<<<"w", "h", "a", "t", "s", "a", "p", "p">>,
        <<"W", "h", "a", "t", "s", "A", "p", "p">>>>,
       <<<<"t", "i", "k", "t", "o", "k">>,
        <<"T", "i", "k", "T", "o", "k">>>> >>

\* Characters that \s matches.
IsSpace(c) == c \in {" ", "\n", "\t"}

\* str.strip()
RECURSIVE StripLeft(_)
StripLeft(s) == IF s # <<>> /\ IsSpace(Head(s)) THEN StripLeft(Tail(s)) ELSE s

RECURSIVE StripRight(_)
StripRight(s) ==
    IF s # <<>> /\ IsSpace(s[Len(s)]) THEN StripRight(SubSeq(s, 1, Len(s) - 1)) ELSE s

StripSpace(s) == StripRight(StripLeft(s))

StartsWith(s, prefix) == Len(prefix) <= Len(s) /\ SubSeq(s, 1, Len(prefix)) = prefix

\* str.replace(old, new): every non-overlapping occurrence, left to right.
RECURSIVE Replace(_, _, _)
Replace(s, old, new) ==
    IF s = <<>> THEN <<>>
    ELSE IF StartsWith(s, old)
         THEN new \o Replace(SubSeq(s, Len(old) + 1, Len(s)), old, new)
         ELSE <<Head(s)>> \o Replace(Tail(s), old, new)

\* for sinhala_term, english_term in self.sinhala_mappings.items():
\*     normalized = normalized.replace(sinhala_term.lower(), english_term)
RECURSIVE ApplyMappings(_, _)
ApplyMappings(s, i) ==
    IF i > Len(sinhala_mappings) THEN s
    ELSE ApplyMappings(
             Replace(s, Lower(sinhala_mappings[i][1]), sinhala_mappings[i][2]), i + 1)

\* re.sub(r'\s+', ' ', normalized)
RECURSIVE CollapseSpaces(_)
CollapseSpaces(s) ==
    IF s = <<>> THEN <<>>
    ELSE IF IsSpace(Head(s)) THEN <<" ">> \o CollapseSpaces(StripLeft(s))
         ELSE <<Head(s)>> \o CollapseSpaces(Tail(s))

\* The character class of the bullet pattern, as the source file has it.
IsBullet(c) == c \in {"â", "€", "¢", "-", "*"}

\* re.sub(r'[...]\s*', '\n- ', normalized)
RECURSIVE ConvertBullets(_)
ConvertBullets(s) ==
    IF s = <<>> THEN <<>>
    ELSE IF IsBullet(Head(s))
         THEN <<"\n", "-", " ">> \o ConvertBullets(StripLeft(Tail(s)))
         ELSE <<Head(s)>> \o ConvertBullets(Tail(s))

\* ProfileBuilderAgent._preprocess_input
PreprocessText(text) ==
    ConvertBullets(CollapseSpaces(ApplyMappings(StripSpace(Lower(text)), 1)))

\* Characters of the short texts explored exhaustively.
TextChar == {"f", "B", "i", "g", "k", "a", "d", "e", " ", "-"}

NormalizerIdle == nIn = <<>> /\ nOut = <<>> /\ nPhase = "idle"

InitNormalizer ==
    /\ nIn \in SeqsUpTo(TextChar, MaxTextLen)
    /\ nOut = <<>>
    /\ nPhase = "ready"

OnlyNormalizer ==
    UNCHANGED <<parserVars, budgetVars, gatewayVars, pipelineVars, classifierVars,
                analyzeVars, runsVars, authVars, storeVars,
                lastVars>>

\* normalized_input = self._preprocess_input(raw_input)
NormalizeText ==
    /\ nPhase = "ready"
    /\ nOut' = PreprocessText(nIn)
    /\ nPhase' = "once"
    /\ UNCHANGED nIn
    /\ OnlyNormalizer

\* The normalizer applied to its own output.
NormalizeAgain ==
    /\ nPhase = "once"
    /\ nOut' = PreprocessText(nOut)
    /\ nPhase' = "twice"
    /\ UNCHANGED nIn
    /\ OnlyNormalizer

NextNormalizer == NormalizeText \/ NormalizeAgain

(***************************************************************************)
(* BUSINESS TYPE: ProfileBuilderAgent._classify_business_type on strings   *)
(* of characters.                                                          *)
(***************************************************************************)
\* self.business_types, in dict order: <<category, keywords>>.
business_types ==
    << <<<<"f", "o", "o", "d", "_", "b", "e", "v", "e", "r", "a", "g", "e">>,
        <<<<"b", "a", "k", "e", "r", "y">>,
          <<"r", "e", "s", "t", "a", "u", "r", "a", "n", "t">>,
          <<"c", "a", "f", "e">>,
          <<"c", "a", "t", "e", "r", "i", "n", "g">>,
          <<"f", "o", "o", "d", " ", "t", "r", "u", "c", "k">>,
          <<"h", "o", "t", "e", "l">>>>>>,
       <<<<"r", "e", "t", "a", "i", "l">>,
        <<<<"c", "l", "o", "t", "h", "i", "n", "g">>,
          <<"e", "l", "e", "c", "t", "r", "o", "n", "i", "c", "s">>,
          <<"j", "e", "w", "e", "l", "r", "y">>,
          <<"b", "o", "o", "k", "s">>,
          <<"c", "o", "s", "m", "e", "t", "i", "c", "s">>,
          <<"p", "h", "a", "r", "m", "a", "c", "y">>>>>>,
       <<<<"s", "e", "r", "v", "i", "c", "e", "s">>,
        <<<<"s", "a", "l", "o", "n">>,
          <<"r", "e", "p", "a", "i", "r">>,
          <<"c", "l", "e", "a", "n", "i", "n", "g">>,
          <<"c", "o", "n", "s", "u", "l", "t", "i", "n", "g">>,
          <<"t", "u", "t", "o", "r", "i", "n", "g">>,
          <<"f", "i", "t", "n", "e", "s", "s">>>>>>,
       <<<<"h", "e", "a", "l", "t", "h", "c", "a", "r", "e">>,
        <<<<"c", "l", "i", "n", "i", "c">>,
          <<"d", "e", "n", "t", "a", "l">>,
          <<"p", "h", "y", "s", "i", "o", "t", "h", "e", "r", "a", "p", "y">>,
          <<"v", "e", "t", "e", "r", "i", "n", "a", "r", "y">>>>>>,
       <<<<"e", "d", "u", "c", "a", "t", "i", "o", "n">>,
        <<<<"s", "c", "h", "o", "o", "l">>,
          <<"t", "r", "a", "i", "n", "i", "n", "g", " ", "c", "e", "n", "t", "e", "r">>,
          <<"l", "a", "n", "g", "u", "a", "g", "e", " ", "c", "l", "a", "s", "s", "e", "s">>,
          <<"d", "r", "i", "v", "i", "n", "g", " ", "s", "c", "h", "o", "o", "l">>>>>>,
       <<<<"t", "e", "c", "h", "n", "o", "l", "o", "g", "y">>,
        <<<<"s", "o", "f", "t", "w", "a", "r", "e">>,
          <<"w", "e", "b", " ", "d", "e", "v", "e", "l", "o", "p", "m", "e", "n", "t">>,
          <<"I", "T", " ", "s", "u", "p", "p", "o", "r", "t">>,
          <<"d", "i", "g", "i", "t", "a", "l", " ", "m", "a", "r", "k", "e", "t", "i", "n", "g">>>>>> >>

IsLetter(c) == IsUpperLetter(c) \/ IsLowerLetter(c)

\* str.title(): a letter is upper-cased when no letter precedes it, and
\* lower-cased otherwise.
Title(s) ==
    [i \in 1..Len(s) |->
        IF i = 1 \/ ~IsLetter(s[i - 1]) THEN UpperChar(s[i]) ELSE LowerChar(s[i])]

\* The keywords in the order the two loops visit them, each with its category.
RECURSIVE KeywordsFrom(_)
KeywordsFrom(i) ==
    IF i > Len(business_types) THEN <<>>
    ELSE [j \in 1..Len(business_types[i][2]) |->
             [category |-> business_types[i][1], keyword |-> business_types[i][2][j]]]
         \o KeywordsFrom(i + 1)

KeywordEntries == KeywordsFrom(1)

NoType == [none |-> TRUE, value |-> <<>>]
SomeType(value) == [none |-> FALSE, value |-> value]

\* if biz_type in input_lower or biz_type in business_type
KeywordMatches(biz_type, input_lower, business_type) ==
    ContainsSub(input_lower, biz_type) \/ ContainsSub(business_type, biz_type)

\* ProfileBuilderAgent._classify_business_type
ClassifyText(business_type, input_text) ==
    LET input_lower == Lower(input_text)
        hits == {i \in 1..Len(KeywordEntries) :
                    KeywordMatches(KeywordEntries[i].keyword, input_lower, business_type)}
    IN IF hits # {}
       THEN SomeType(Title(KeywordEntries[CHOOSE i \in hits : \A j \in hits : i <= j].keyword))
       ELSE IF business_type # <<>> THEN SomeType(Title(business_type)) ELSE NoType

\* Texts: each keyword as written, in lower case, in upper case and in title
\* case, alone and inside a sentence; texts with two keywords; texts with none.
TextBefore == {<<>>, <<"I", " ", "r", "u", "n", " ", "a", " ">>}
TextAfter == {<<>>, <<" ", "i", "n", " ", "G", "a", "l", "l", "e">>}

KeywordSpellings(k) == {k, Lower(k), Upper(k), Title(k)}

KeywordTexts ==
    {pre \o w \o post :
        pre \in TextBefore, post \in TextAfter,
        w \in UNION {KeywordSpellings(KeywordEntries[i].keyword) :
                        i \in 1..Len(KeywordEntries)}}

OtherTexts2 ==
    { <<>>,
      <<"s", "h", "o", "p">>,
      <<"c", "a", "f", "e", " ", "a", "n", "d", " ", "b", "a", "k", "e", "r", "y">>,
      <<"S", "a", "l", "o", "n", " ", "i", "n", " ", "a", " ", "h", "o", "t", "e", "l">> }

ClassifierTexts == KeywordTexts \cup OtherTexts2

\* business_type as extracted by the LLM and lower-cased by the caller.
ClassifierTypes == {<<>>, <<"s", "h", "o", "p">>}

ClassifierIdle == kText = <<>> /\ kType = <<>> /\ kOut = NoType /\ kPhase = "idle"

InitClassifier ==
    /\ kText \in ClassifierTexts
    /\ kType \in ClassifierTypes
    /\ kOut = NoType
    /\ kPhase = "ready"

\* enhanced_type = self._classify_business_type(business_type, original_input)
ClassifyCall ==
    /\ kPhase = "ready"
    /\ kOut' = ClassifyText(kType, kText)
    /\ kPhase' = "done"
    /\ UNCHANGED <<kText, kType>>
    /\ UNCHANGED <<parserVars, budgetVars, gatewayVars, pipelineVars, normalizerVars,
                   analyzeVars, runsVars, authVars, storeVars,
                lastVars>>

NextClassifier == ClassifyCall

(***************************************************************************)
(* ANALYZE-ONLY: the handler analyze_input of app/api/profile.py and the   *)
(* class ProfileExtractor of app/tools/profile_extraction.py it calls.     *)
(***************************************************************************)
\* The methods the class ProfileExtractor defines.
ProfileExtractorMethods ==
    {"__init__", "extract_profile_data", "_extract_demographics",
     "_extract_behavioral_data", "_extract_psychographics", "_extract_contact_info",
     "_extract_preferences", "_extract_interaction_history",
     "_clean_demographic_value", "_calculate_age_from_birth_date",
     "_process_purchase_history", "_analyze_survey_responses", "_is_valid_email",
     "_clean_phone_number", "_identify_data_sources", "_calculate_data_quality",
     "_validate_extracted_data"}

\* The entries of the insights dict, in the order they are evaluated:
\* <<key, method called on the extractor>>.
InsightCalls ==
    << <<"detected_business_type", "extract_business_type">>,
       <<"detected_location", "extract_location">>,
       <<"detected_platforms", "extract_platforms">>,
       <<"detected_budget", "extract_budget">>,
       <<"detected_challenges", "extract_challenges">>,
       <<"detected_strengths", "extract_strengths">>,
       <<"normalized_input", "normalize_sinhala_terms">> >>

\* extractor.<method>(request.text): attribute lookup on the instance raises
\* AttributeError for a name the class does not define.
CallExtractor(method, text) ==
    IF method \in ProfileExtractorMethods
    THEN [raised |-> FALSE, error |-> <<>>, value |-> <<method, text>>]
    ELSE [raised |-> TRUE,
          error |-> <<"'ProfileExtractor' object has no attribute", method>>,
          value |-> <<>>]

SinhalaMarkers ==
    { <<"k", "a", "d", "e">>,
      <<"r", "e", "s", "t", "a", "u", "r", "a", "n", "t", " ", "e", "k", "a">>,
      <<"s", "a", "l", "o", "n", " ", "e", "k", "a">>,
      <<"a", "w", "a", "r", "e", "n", "e", "s", "s", " ", "e", "k", "a", "k">>,
      <<"p", "h", "o", "t", "o", "s", " ", "n", "a", "n", "e">> }

\* any(term in request.text.lower() for term in [...])
HasSinhalaTerms(text) == \E term \in SinhalaMarkers : ContainsSub(Lower(text), term)

\* except Exception as e: return {"success": False, "error": str(e)}
AnalyzeFailed(e) == [success |-> FALSE, error |-> e]

\* analyze_input
AnalyzeInput(text) ==
    LET calls == [i \in 1..Len(InsightCalls) |-> CallExtractor(InsightCalls[i][2], text)]
        raising == {i \in 1..Len(calls) : calls[i].raised}
    IN IF raising # {}
       THEN AnalyzeFailed(calls[CHOOSE i \in raising : \A j \in raising : i <= j].error)
       ELSE [success |-> TRUE,
             insights |-> [i \in 1..Len(calls) |-> <<InsightCalls[i][1], calls[i].value>>],
             input_length |-> Len(text),
             has_sinhala_terms |-> HasSinhalaTerms(text)]

NoResponse == [success |-> FALSE, error |-> <<>>]

AnalyzeIdle ==
    /\ aText = <<>>
    /\ aResponse = NoResponse
    /\ aLLMCalls = 0
    /\ aPhase = "idle"

InitAnalyze ==
    /\ aText \in ClassifierTexts \cup SinhalaMarkers
    /\ aResponse = NoResponse
    /\ aLLMCalls = 0
    /\ aPhase = "ready"

\* POST /profile/analyze: the handler neither builds an agent nor a client.
AnalyzeCall ==
    /\ aPhase = "ready"
    /\ aResponse' = AnalyzeInput(aText)
    /\ aPhase' = "done"
    /\ UNCHANGED <<aText, aLLMCalls>>
    /\ UNCHANGED <<parserVars, budgetVars, gatewayVars, pipelineVars, normalizerVars,
                   classifierVars, runsVars, authVars, storeVars,
                lastVars>>

NextAnalyze == AnalyzeCall

(***************************************************************************)
(* CONCURRENT RUNS: build_profile coroutines of several requests in the    *)
(* one event loop.  A run is suspended only at the awaited LLM call; what  *)
(* precedes it and what follows it run without interruption.               *)
(***************************************************************************)
MaxRuns == 2
Runs == 1..MaxRuns

RunInputs == {<<>>, <<"Bakery">>, <<"kade">>}

RunOutcomes ==
    {[client |-> "ValueError: OPENAI_API_KEY environment variable is required",
      call |-> "", text |-> <<>>, object |-> EmptyDict],
     [client |-> "ok", call |-> "Timeout", text |-> <<>>, object |-> EmptyDict],
     [client |-> "ok", call |-> "text", text |-> <<"n">>, object |-> EmptyDict],
     [client |-> "ok", call |-> "text", text |-> CleanObject,
      object |-> [business_identity |-> [business_type |-> "Restaurant"]]],
     [client |-> "ok", call |-> "text", text |-> CleanObject,
      object |-> [resources |-> [monthly_budget |-> Chars25k]]],
     [client |-> "ok", call |-> "text", text |-> WrappedObject,
      object |-> [strengths |-> ObjectOf(<<"quality">>)]]}

FreeCell == [live |-> FALSE, value |-> EmptyDict]
Cell(value) == [live |-> TRUE, value |-> value]

\* Mutant: the fallback dict is one object, reused by every call.
DataOwnerShared(r, kind) == IF kind = "fallback" THEN 1 ELSE r

\* The dict _extract_profile_data returns is built by the call itself: the
\* parser's json.loads result or the dict literal of the except clause.
DataOwner(r, kind) == r

\* The object under `owner`: created with `value` unless it exists already.
DataAt(heap, owner, value) == IF heap[owner].live THEN heap[owner].value ELSE value

\* enhanced = profile_data.copy() is a shallow copy: the nested group dicts
\* of profile_data are the ones the later steps change in place, while keys
\* assigned at the top level of the copy (strengths) are not seen through
\* profile_data.
SeenThroughData(data, current) ==
    [k \in DOMAIN data |->
        IF k # "strengths" /\ k \in DOMAIN current THEN current[k] ELSE data[k]]

\* The copy as _enhance_profile left it when _normalize_budget raised.
EnhancedBeforeBudget(data, original_input) ==
    LET typed == EnhanceBusinessType(data, original_input)
    IN IF typed.raised THEN data
       ELSE EnhancePlatformPreferences(EnhanceTargetAudience(typed.profile, original_input))

\* build_profile from the return of the awaited call to its own return:
\* the result, and the profile_data object as the run left it.
ResumeRun(raw, norm, o, data, kind) ==
    LET enhanced == EnhanceProfile(data, norm)
        complete == FillMissingData(enhanced.profile)
        validated == ValidateProfile(complete)
    IN IF kind = "nonobject"
       THEN [result |-> WrapError("AttributeError: object has no attribute 'copy'"),
             data |-> data]
       ELSE IF enhanced.raised
       THEN [result |-> WrapError(enhanced.error),
             data |-> SeenThroughData(data, EnhancedBeforeBudget(data, norm))]
       ELSE IF validated.raised
       THEN [result |-> WrapError(validated.error),
             data |-> SeenThroughData(data, complete)]
       ELSE [result |-> ReturnProfile(FinalProfile(validated.profile, complete, raw)),
             data |-> SeenThroughData(data, complete)]

\* build_profile executed alone on raw_input `raw` with LLM outcome `o`.
RunAlone(raw, o) ==
    LET x == ExtractProfileData(o)
    IN IF x.raised THEN WrapError(x.error)
       ELSE ResumeRun(raw, PreprocessInput(raw), o, x.profile, x.kind).result

RunsIdle ==
    /\ rPc = [r \in Runs |-> "idle"]
    /\ rRaw = [r \in Runs |-> <<>>]
    /\ rNorm = [r \in Runs |-> <<>>]
    /\ rOutcome = [r \in Runs |-> NoOutcome]
    /\ rResult = [r \in Runs |-> Running]
    /\ rHeap = [r \in Runs |-> FreeCell]
    /\ rTouched = [r \in Runs |-> {}]

InitRuns ==
    /\ rPc = [r \in Runs |-> "Received"]
    /\ rRaw \in [Runs -> RunInputs]
    /\ rNorm = [r \in Runs |-> <<>>]
    /\ rOutcome = [r \in Runs |-> NoOutcome]
    /\ rResult = [r \in Runs |-> Running]
    /\ rHeap = [r \in Runs |-> FreeCell]
    /\ rTouched = [r \in Runs |-> {}]

OnlyRuns ==
    UNCHANGED <<parserVars, budgetVars, gatewayVars, pipelineVars, normalizerVars,
                classifierVars, analyzeVars, authVars, storeVars,
                lastVars>>

\* A request arrives: the handler builds its agent and build_profile runs up
\* to the awaited LLM call.
RunStart(r) ==
    /\ rPc[r] = "Received"
    /\ rNorm' = [rNorm EXCEPT ![r] = PreprocessInput(rRaw[r])]
    /\ rPc' = [rPc EXCEPT ![r] = "Awaiting"]
    /\ UNCHANGED <<rRaw, rOutcome, rResult, rHeap, rTouched>>
    /\ OnlyRuns

\* The awaited call of run r gives its outcome and the run goes on to its end.
RunResume(r) ==
    /\ rPc[r] = "Awaiting"
    /\ \E o \in RunOutcomes :
         LET x == ExtractProfileData(o)
             owner == DataOwner(r, x.kind)
             data == DataAt(rHeap, owner, x.profile)
             done == ResumeRun(rRaw[r], rNorm[r], o, data, x.kind)
         IN /\ rOutcome' = [rOutcome EXCEPT ![r] = o]
            /\ IF x.raised
               THEN /\ rResult' = [rResult EXCEPT ![r] = WrapError(x.error)]
                    /\ rPc' = [rPc EXCEPT ![r] = "Failed"]
                    /\ UNCHANGED <<rHeap, rTouched>>
               ELSE /\ rResult' = [rResult EXCEPT ![r] = done.result]
                    /\ rPc' = [rPc EXCEPT ![r] =
                                 IF done.result.status = "returned" THEN "Done"
                                 ELSE "Failed"]
                    /\ rHeap' = [rHeap EXCEPT ![owner] = Cell(done.data)]
                    /\ rTouched' = [rTouched EXCEPT ![r] = @ \cup {owner}]
    /\ UNCHANGED <<rRaw, rNorm>>
    /\ OnlyRuns

NextRuns == \E r \in Runs : RunStart(r) \/ RunResume(r)

(***************************************************************************)
(* AUTHENTICATION: app/services/auth.py, app/services/user_database.py and *)
(* the handlers of app/api/auth_routes.py.  The handlers run in the one    *)
(* event loop and none of them is suspended between its database calls     *)
(* (the Supabase client is synchronous), so a request is one step.         *)
(***************************************************************************)
MaxTicks == 2
MaxUsers == 3

SECRET_KEY == "server key"
ACCESS_TOKEN_EXPIRE_MINUTES == 60 * 24

Emails == {"a@x.lk", "b@x.lk"}
Passwords == {"password-1", "password-2"}
Salts == {1, 2}
ClockSteps == {ACCESS_TOKEN_EXPIRE_MINUTES}

\* pwd_context.hash(password): bcrypt with a salt drawn by the library.
GetPasswordHash(password, salt) ==
    [scheme |-> "bcrypt", salt |-> salt, digest_of |-> password]

\* Mutant: every password is taken to match.
VerifyPasswordAlways(plain_password, hashed_password) == TRUE

\* pwd_context.verify(plain_password, hashed_password): the digest of the
\* plain password under the salt of the stored hash equals the stored one.
VerifyPassword(plain_password, hashed_password) ==
    GetPasswordHash(plain_password, hashed_password.salt) = hashed_password

\* jwt.encode(claims, key, algorithm): the claims and a signature over them.
JwtEncode(claims, key) ==
    [form |-> "jwt", claims |-> claims, sig |-> [key |-> key, claims |-> claims]]

\* create_access_token; expires_delta = 0 stands for None (both are falsy).
CreateAccessToken(data, expires_delta, now) ==
    LET expire == IF expires_delta # 0 THEN now + expires_delta
                  ELSE now + ACCESS_TOKEN_EXPIRE_MINUTES
    IN JwtEncode(Put(data, "exp", expire), SECRET_KEY)

JwtOk(claims) == [raised |-> FALSE, claims |-> claims]
JWTError == [raised |-> TRUE, claims |-> EmptyDict]

\* Mutant: the exp claim is not looked at.
JwtDecodeNoExpiry(token, key, now) ==
    IF token.form # "jwt" THEN JWTError
    ELSE IF token.sig # [key |-> key, claims |-> token.claims] THEN JWTError
    ELSE JwtOk(token.claims)

\* jwt.decode(token, key, algorithms=[ALGORITHM]): the token must parse, its
\* signature must be the one `key` gives for its claims, and exp, when
\* present, must not lie before the current time.
JwtDecode(token, key, now) ==
    IF token.form # "jwt" THEN JWTError
    ELSE IF token.sig # [key |-> key, claims |-> token.claims] THEN JWTError
    ELSE IF "exp" \in DOMAIN token.claims /\ token.claims.exp < now THEN JWTError
    ELSE JwtOk(token.claims)

NoTokenData == [email |-> PyNone, user_id |-> PyNone]
CredentialsException ==
    [status |-> 401, detail |-> "Could not validate credentials", data |-> NoTokenData]

\* decode_access_token
DecodeAccessToken(token, now) ==
    LET decoded == JwtDecode(token, SECRET_KEY, now)
        email == Get(decoded.claims, "sub", PyNone)
        user_id == Get(decoded.claims, "user_id", PyNone)
    IN IF decoded.raised THEN CredentialsException
       ELSE IF email = PyNone THEN CredentialsException
       ELSE [status |-> 200, detail |-> "", data |-> [email |-> email, user_id |-> user_id]]

NoToken == [form |-> "none", claims |-> EmptyDict, sig |-> [key |-> "", claims |-> EmptyDict]]
GarbageToken ==
    [form |-> "garbage", claims |-> EmptyDict, sig |-> [key |-> "", claims |-> EmptyDict]]
NothingHeld == [token |-> NoToken, data |-> EmptyDict, at |-> 0]

NoRequest ==
    [op |-> "none", email |-> "", password |-> "", status |-> 0, detail |-> "",
     token |-> NoToken, at |-> 0, data |-> NoTokenData, ran |-> FALSE]

Response(op, email, password, status, detail) ==
    [op |-> op, email |-> email, password |-> password, status |-> status,
     detail |-> detail, token |-> NoToken, at |-> uNow, data |-> NoTokenData,
     ran |-> FALSE]

\* The rows .select("*").eq("email", email) gives, in table order.
RowsByEmail(users, email) == {i \in DOMAIN users : users[i].email = email}

\* Mutant: the lookup before the insert finds nothing.
EmailTakenNever(users, email) == FALSE

\* create_user: existing_user = await self.get_user_by_email(user.email)
EmailTaken(users, email) == RowsByEmail(users, email) # {}

\* get_user_by_email: result.data[0]
FirstRow(users, email) ==
    users[CHOOSE i \in RowsByEmail(users, email) :
              \A j \in RowsByEmail(users, email) : i <= j]

AuthIdle ==
    /\ uUsers = <<>>
    /\ uNow = 0
    /\ uTicks = 0
    /\ uHeld = NothingHeld
    /\ uLast = NoRequest

InitAuth ==
    /\ uUsers = <<>>
    /\ uNow = 0
    /\ uTicks = 0
    /\ uHeld = NothingHeld
    /\ uLast = [NoRequest EXCEPT !.op = "start"]

OnlyAuth ==
    UNCHANGED <<parserVars, budgetVars, gatewayVars, pipelineVars, normalizerVars,
                classifierVars, analyzeVars, runsVars, storeVars,
                lastVars>>

\* POST /auth/register with a UserCreate body: create_user and the except
\* clauses of the handler.  The insert may come back without data.
Register(email, password) ==
    /\ Len(uUsers) < MaxUsers
    /\ IF EmailTaken(uUsers, email)
       THEN /\ uLast' = Response("register", email, password, 400,
                                 "User with this email already exists")
            /\ UNCHANGED uUsers
       ELSE \E salt \in Salts, inserted \in BOOLEAN :
              IF inserted
              THEN /\ uUsers' = Append(uUsers,
                                       [id |-> Len(uUsers) + 1, email |-> email,
                                        hashed_password |->
                                            GetPasswordHash(password, salt)])
                   /\ uLast' = Response("register", email, password, 201, "")
              ELSE /\ uLast' = Response("register", email, password, 500,
                                        "Failed to create user: Failed to create user")
                   /\ UNCHANGED uUsers
    /\ UNCHANGED <<uNow, uTicks, uHeld>>
    /\ OnlyAuth

\* POST /auth/login with a UserLogin body.
Login(email, password) ==
    /\ IF ~EmailTaken(uUsers, email)
       THEN /\ uLast' = Response("login", email, password, 401,
                                 "Incorrect email or password")
            /\ UNCHANGED uHeld
       ELSE LET user == FirstRow(uUsers, email)
                data == [sub |-> user.email, user_id |-> user.id]
                access_token == CreateAccessToken(data, 0, uNow)
            IN IF ~VerifyPassword(password, user.hashed_password)
               THEN /\ uLast' = Response("login", email, password, 401,
                                         "Incorrect email or password")
                    /\ UNCHANGED uHeld
               ELSE /\ uLast' = [Response("login", email, password, 200, "")
                                   EXCEPT !.token = access_token]
                    /\ uHeld' = [token |-> access_token, data |-> data, at |-> uNow]
    /\ UNCHANGED <<uUsers, uNow, uTicks>>
    /\ OnlyAuth

\* create_access_token called directly with a data dict, as test_jwt_tokens
\* does; the dict need not hold "sub".
DataChoices == [sub : Emails, user_id : {1}] \cup [user_id : {1}]

CreateToken(data) ==
    /\ uHeld' = [token |-> CreateAccessToken(data, 0, uNow), data |-> data, at |-> uNow]
    /\ uLast' = [Response("create_token", "", "", 0, "") EXCEPT !.token = uHeld'.token]
    /\ UNCHANGED <<uUsers, uNow, uTicks>>
    /\ OnlyAuth

\* The tokens a client can present: the one it holds, that token with a
\* claim changed after signing, tokens signed with another key, and text
\* that is no JWT.
Presentable ==
    {GarbageToken}
    \cup {JwtEncode([sub |-> "a@x.lk", user_id |-> 1, exp |-> uNow + 1],
                     "another key")}
    \cup (IF uHeld = NothingHeld THEN {}
          ELSE {uHeld.token}
               \cup {[uHeld.token EXCEPT !.claims = Put(@, "sub", e)] : e \in Emails}
               \cup {[uHeld.token EXCEPT !.claims = Put(@, "exp", uNow + 1)]})

\* GET /auth/protected with a Bearer token: the dependency get_current_user
\* decodes the token; the handler runs only when it returned.
Protected(token) ==
    /\ LET current_user == DecodeAccessToken(token, uNow)
       IN uLast' = [Response("protected", "", "", current_user.status,
                             current_user.detail)
                      EXCEPT !.token = token, !.data = current_user.data,
                             !.ran = (current_user.status = 200)]
    /\ UNCHANGED <<uUsers, uNow, uTicks, uHeld>>
    /\ OnlyAuth

\* Time passes.
Tick(step) ==
    /\ uTicks < MaxTicks
    /\ uNow' = uNow + step
    /\ uTicks' = uTicks + 1
    /\ UNCHANGED <<uUsers, uHeld, uLast>>
    /\ OnlyAuth

NextAuth ==
    \/ \E email \in Emails, password \in Passwords : Register(email, password)
    \/ \E email \in Emails, password \in Passwords : Login(email, password)
    \/ \E data \in DataChoices : CreateToken(data)
    \/ \E token \in Presentable : Protected(token)
    \/ \E step \in ClockSteps : Tick(step)

(***************************************************************************)
(* PROFILE STORE: profiles_storage of app/api/profile.py and the handlers  *)
(* that write and read it.                                                 *)
(***************************************************************************)
MaxStoreClock == 1
MaxBuilds == 2
MaxPending == 1

StoreInputs == {<<"Bakery">>}

StoreOutcomes ==
    {o \in RunOutcomes :
        \/ o.client # "ok"
        \/ o.call = "Timeout"
        \/ "business_identity" \in DOMAIN o.object}

\* What the awaited LLM call of a waiting request can give: an error, a
\* value that is no object, objects that pass, fail in the enhancer or fail
\* the schema check.
ResumeOutcomes == {o \in RunOutcomes : o.client = "ok"}

\* await agent.build_profile(raw_input=...): what it gives for each input
\* and LLM outcome, computed once.
BuildResult == [raw \in StoreInputs, o \in RunOutcomes |-> RunAlone(raw, o)]

\* hash(request.raw_input) % 10000: smallest and largest value.
HashModulus == 10000
HashValues == {0, HashModulus - 1}

\* profile_id = f"profile_{int(time.time())}_{hash(request.raw_input) % 10000}"
ProfileId(now, h) == [time |-> now, hash |-> h]

StoreIds == {ProfileId(t, h) : t \in 0..MaxStoreClock, h \in HashValues}

\* Mutant: every id is taken to be stored.
ProfileStoredAlways(store, profile_id) == TRUE

\* profile_id in profiles_storage
ProfileStored(store, profile_id) == profile_id \in DOMAIN store

\* del profiles_storage[profile_id]
Without(store, profile_id) == [i \in DOMAIN store \ {profile_id} |-> store[i]]

NoId == [time |-> 0 - 1, hash |-> 0]

StoreResponse(op, profile_id, status, success, detail, p) ==
    [op |-> op, id |-> profile_id, status |-> status, success |-> success,
     detail |-> detail, profile |-> p]

StoreIdle ==
    /\ sStore = EmptyDict
    /\ sClock = 0
    /\ sHash = EmptyDict
    /\ sBuilt = {}
    /\ sDeleted = {}
    /\ sLast = StoreResponse("none", NoId, 0, FALSE, "", EmptyDict)
    /\ sPending = EmptyDict

\* The process starts with an empty store; Python fixes its string hash for
\* the life of the process.
InitStore ==
    /\ sStore = EmptyDict
    /\ sClock = 0
    /\ sHash \in [StoreInputs -> HashValues]
    /\ sBuilt = {}
    /\ sDeleted = {}
    /\ sLast = StoreResponse("start", NoId, 0, FALSE, "", EmptyDict)
    /\ sPending = [raw \in StoreInputs |-> 0]

OnlyStore ==
    UNCHANGED <<parserVars, budgetVars, gatewayVars, pipelineVars, normalizerVars,
                classifierVars, analyzeVars, runsVars, authVars,
                lastVars>>

\* POST /profile/build: build_profile, the BusinessProfile check, the write
\* to the store and the response; any exception gives success=False.
BuildBusinessProfile(raw, o) ==
    /\ Cardinality(sBuilt) < MaxBuilds
    /\ LET built == BuildResult[raw, o]
           profile_id == ProfileId(sClock, sHash[raw])
       IN IF built.status = "raised"
          THEN /\ sLast' = StoreResponse("build", NoId, 200, FALSE,
                                         "Failed to build profile", EmptyDict)
               /\ UNCHANGED <<sStore, sBuilt>>
          ELSE IF ValidateProfile(built.profile).raised
          THEN /\ sLast' = StoreResponse("build", NoId, 200, FALSE,
                                         "Failed to build profile", EmptyDict)
               /\ UNCHANGED <<sStore, sBuilt>>
          ELSE /\ sStore' = Put(sStore, profile_id,
                                [profile |-> built.profile, raw_input |-> raw,
                                 created_at |-> sClock])
               /\ sBuilt' = sBuilt \cup {[id |-> profile_id, profile |-> built.profile]}
               /\ sLast' = StoreResponse("build", profile_id, 200, TRUE, "",
                                         built.profile)
    /\ UNCHANGED <<sClock, sHash, sDeleted, sPending>>
    /\ OnlyStore

\* Mutant: the entry is written whatever build_profile and the
\* BusinessProfile check gave.
StorableAlways(built) == TRUE

\* The statements before the write: build_profile returned and
\* BusinessProfile(**profile_data) accepted what it returned.
Storable(built) ==
    /\ built.status # "raised"
    /\ ~ValidateProfile(built.profile).raised

\* POST /profile/build up to its only suspension point, the awaited LLM call
\* inside build_profile; the client was constructed.
BuildStart(raw) ==
    /\ Cardinality(sBuilt) < MaxBuilds
    /\ sPending[raw] < MaxPending
    /\ sPending' = [sPending EXCEPT ![raw] = @ + 1]
    /\ UNCHANGED <<sStore, sClock, sHash, sBuilt, sDeleted, sLast>>
    /\ OnlyStore

\* The LLM call of a waiting request ends with outcome o: the rest of
\* build_profile, the check, the write and the response, without suspension.
BuildResume(raw, o) ==
    /\ sPending[raw] > 0
    /\ sPending' = [sPending EXCEPT ![raw] = @ - 1]
    /\ LET built == BuildResult[raw, o]
           profile_id == ProfileId(sClock, sHash[raw])
       IN IF Storable(built)
          THEN /\ sStore' = Put(sStore, profile_id,
                                [profile |-> built.profile, raw_input |-> raw,
                                 created_at |-> sClock])
               /\ sBuilt' = sBuilt \cup {[id |-> profile_id, profile |-> built.profile]}
               /\ sLast' = StoreResponse("build", profile_id, 200, TRUE, "",
                                         built.profile)
          ELSE /\ sLast' = StoreResponse("build", NoId, 200, FALSE,
                                         "Failed to build profile", EmptyDict)
               /\ UNCHANGED <<sStore, sBuilt>>
    /\ UNCHANGED <<sClock, sHash, sDeleted>>
    /\ OnlyStore

\* The caller abandons a waiting request: CancelledError is raised at the
\* await and, being no Exception, passes the except clause; nothing after
\* the await runs.
BuildAbandon(raw) ==
    /\ sPending[raw] > 0
    /\ sPending' = [sPending EXCEPT ![raw] = @ - 1]
    /\ sLast' = StoreResponse("abandon", NoId, 0, FALSE, "CancelledError", EmptyDict)
    /\ UNCHANGED <<sStore, sClock, sHash, sBuilt, sDeleted>>
    /\ OnlyStore

\* GET /profile/: one entry per stored id.
ListProfiles ==
    /\ sLast' = StoreResponse("list", NoId, 200, TRUE, "",
                              [i \in DOMAIN sStore |-> sStore[i].created_at])
    /\ UNCHANGED <<sStore, sClock, sHash, sBuilt, sDeleted, sPending>>
    /\ OnlyStore

\* GET /profile/{profile_id}; the lookup is inside the try block.
GetProfile(profile_id) ==
    /\ IF ~ProfileStored(sStore, profile_id)
       THEN sLast' = StoreResponse("get", profile_id, 404, FALSE, "Profile not found",
                                   EmptyDict)
       ELSE IF profile_id \notin DOMAIN sStore
       THEN sLast' = StoreResponse("get", profile_id, 200, FALSE,
                                   "Failed to retrieve profile: KeyError", EmptyDict)
       ELSE IF ValidateProfile(sStore[profile_id].profile).raised
       THEN sLast' = StoreResponse("get", profile_id, 200, FALSE,
                                   "Failed to retrieve profile", EmptyDict)
       ELSE sLast' = StoreResponse("get", profile_id, 200, TRUE, "",
                                   sStore[profile_id].profile)
    /\ UNCHANGED <<sStore, sClock, sHash, sBuilt, sDeleted, sPending>>
    /\ OnlyStore

\* DELETE /profile/{profile_id}
DeleteProfile(profile_id) ==
    /\ IF ~ProfileStored(sStore, profile_id)
       THEN /\ sLast' = StoreResponse("delete", profile_id, 404, FALSE,
                                      "Profile not found", EmptyDict)
            /\ UNCHANGED <<sStore, sDeleted>>
       ELSE IF profile_id \notin DOMAIN sStore
       THEN /\ sLast' = StoreResponse("delete", profile_id, 500, FALSE, "KeyError",
                                      EmptyDict)
            /\ UNCHANGED <<sStore, sDeleted>>
       ELSE /\ sStore' = Without(sStore, profile_id)
            /\ sDeleted' = sDeleted \cup {profile_id}
            /\ sLast' = StoreResponse("delete", profile_id, 200, TRUE,
                                      "deleted successfully", EmptyDict)
    /\ UNCHANGED <<sClock, sHash, sBuilt, sPending>>
    /\ OnlyStore

\* A second passes: int(time.time()) grows by one.
StoreTick ==
    /\ sClock < MaxStoreClock
    /\ sClock' = sClock + 1
    /\ UNCHANGED <<sStore, sHash, sBuilt, sDeleted, sLast, sPending>>
    /\ OnlyStore

NextStore ==
    \/ \E raw \in StoreInputs, o \in StoreOutcomes : BuildBusinessProfile(raw, o)
    \/ \E raw \in StoreInputs : BuildStart(raw)
    \/ \E raw \in StoreInputs, o \in ResumeOutcomes : BuildResume(raw, o)
    \/ \E raw \in StoreInputs : BuildAbandon(raw)
    \/ ListProfiles
    \/ \E profile_id \in StoreIds : GetProfile(profile_id)
    \/ \E profile_id \in StoreIds : DeleteProfile(profile_id)
    \/ StoreTick

(***************************************************************************)
(* TOKEN LIMIT: LLMClient.estimate_tokens and truncate_to_token_limit on   *)
(* strings of characters.                                                  *)
(***************************************************************************)
MaxChars == 16
MaxLimit == 3

\* A text of n letters with a space in place of the letters at s1 and s2
\* (0: no space there).
TextOf(n, s1, s2) == [i \in 1..n |-> IF i \in {s1, s2} THEN " " ELSE "a"]

TruncTexts == {TextOf(n, s1, s2) : n \in 0..MaxChars, s1 \in 0..MaxChars, s2 \in 0..MaxChars}

\* LLMClient.estimate_tokens
EstimateTokens(text) == Len(text) \div 4

\* str.rfind(' ') as a 0-based index, -1 when there is none.
RFindSpace(s) ==
    IF \E i \in 1..Len(s) : s[i] = " "
    THEN (CHOOSE i \in 1..Len(s) : s[i] = " " /\ \A j \in (i + 1)..Len(s) : s[j] # " ") - 1
    ELSE -1

\* Mutant: the character limit allows one token more.
CharLimitLoose(max_tokens) == max_tokens * 4 + 4

\* char_limit = max_tokens * 4
CharLimit(max_tokens) == max_tokens * 4

\* LLMClient.truncate_to_token_limit; last_space > char_limit * 0.9 is
\* compared in tenths.
TruncateToTokenLimit(text, max_tokens) ==
    IF EstimateTokens(text) <= max_tokens THEN text
    ELSE LET char_limit == CharLimit(max_tokens)
             truncated == Slice(text, 1, char_limit)
             last_space == RFindSpace(truncated)
         IN (IF 10 * last_space > 9 * char_limit
             THEN Slice(truncated, 1, last_space)
             ELSE truncated) \o <<".", ".", ".">>

TruncIdle == tText = <<>> /\ tMax = 0 /\ tOut = <<>> /\ tPhase = "idle"

InitTrunc ==
    /\ tText \in TruncTexts
    /\ tMax \in 0..MaxLimit
    /\ tOut = <<>>
    /\ tPhase = "ready"

TruncateCall ==
    /\ tPhase = "ready"
    /\ tOut' = TruncateToTokenLimit(tText, tMax)
    /\ tPhase' = "done"
    /\ UNCHANGED <<tText, tMax>>
    /\ UNCHANGED <<parserVars, budgetVars, gatewayVars, pipelineVars, normalizerVars,
                   classifierVars, analyzeVars, runsVars, authVars, storeVars,
                   strategyVars>>

NextTrunc == TruncateCall

(***************************************************************************)
(* STRATEGY GENERATION: generate_strategy_for_submission of                *)
(* app/api/routes.py.                                                      *)
(***************************************************************************)
\* Calls of the strategy generator in one behaviour.
MaxCalls == 2

\* Ids of the submissions table a request can name.
SubmissionIds == {"sub-1", "sub-2"}

\* What the generator's "strategy" field can hold.
Strategies == {"strategy A", "strategy B"}
NoStrategy == "null"

\* A row of marketing_form_submissions as create_submission leaves it.
SubmissionRow == [status |-> "pending", strategy |-> NoStrategy]

\* How the POST to the generator ends.
GeneratorOutcomes ==
    {"success", "non-200", "success false", "timeout", "connect error"}

\* How a statement of the database service ends.
DbOutcomes == {"ok", "raised"}

StrategyIdle ==
    /\ ySubs = <<>>
    /\ yPending = {}
    /\ yCalls = <<>>
    /\ yUpdates = <<>>
    /\ yLast = <<>>

InitStrategy ==
    /\ \E present \in SUBSET SubmissionIds :
          ySubs = [i \in present |-> SubmissionRow]
    /\ yPending = {}
    /\ yCalls = <<>>
    /\ yUpdates = <<>>
    /\ yLast = [op |-> "none", id |-> "", status |-> 0, outcome |-> "",
                detail |-> "", strategy |-> NoStrategy]

OnlyStrategy ==
    UNCHANGED <<parserVars, budgetVars, gatewayVars, pipelineVars, normalizerVars,
                classifierVars, analyzeVars, runsVars, authVars, storeVars,
                truncVars>>

StrategyResponse(op, submission_id, status, ending, detail, strategy) ==
    [op |-> op, id |-> submission_id, status |-> status, outcome |-> ending,
     detail |-> detail, strategy |-> strategy]

\* StrategyGeneratorClient.generate_strategy: the result is returned only
\* for a 200 answer whose success flag is true; every other end raises.
GenerateStrategy(ending, strategy) ==
    CASE ending = "success" ->
           [raised |-> FALSE, success |-> TRUE, strategy |-> strategy, error |-> ""]
      [] ending = "non-200" ->
           [raised |-> TRUE, success |-> FALSE, strategy |-> NoStrategy,
            error |-> "Strategy API returned 500"]
      [] ending = "success false" ->
           [raised |-> TRUE, success |-> FALSE, strategy |-> NoStrategy,
            error |-> "Strategy generation failed"]
      [] ending = "timeout" ->
           [raised |-> TRUE, success |-> FALSE, strategy |-> NoStrategy,
            error |-> "Strategy generation timed out (120s)"]
      [] OTHER ->
           [raised |-> TRUE, success |-> FALSE, strategy |-> NoStrategy,
            error |-> "Strategy Generator service unavailable"]

StrategyAcceptedAlways(strategy_result) == TRUE

\* The statements between the generator call and the update: the call did
\* not raise and strategy_result.get("success") is true.
StrategyAccepted(strategy_result) ==
    /\ ~strategy_result.raised
    /\ strategy_result.success

\* db_service.update_submission_strategy(submission_id, strategy_data): the
\* row of that id gets the strategy; no row, no change.
UpdateSubmissionStrategy(subs, submission_id, strategy_data) ==
    IF submission_id \in DOMAIN subs
    THEN [subs EXCEPT ![submission_id].strategy = strategy_data]
    ELSE subs

\* generate_strategy_for_submission up to the awaited generator call:
\* get_submission, the 404 test, the conversion and the POST being sent.
GenStart(submission_id, fetch) ==
    /\ (fetch = "ok" /\ submission_id \in DOMAIN ySubs) => Len(yCalls) < MaxCalls
    /\ IF fetch = "raised"
       THEN /\ yLast' = StrategyResponse("generate", submission_id, 500, "not called",
                                         "Failed to generate strategy", NoStrategy)
            /\ UNCHANGED <<ySubs, yPending, yCalls, yUpdates>>
       ELSE IF submission_id \notin DOMAIN ySubs
       THEN /\ yLast' = StrategyResponse("generate", submission_id, 404, "not called",
                                         "Submission not found", NoStrategy)
            /\ UNCHANGED <<ySubs, yPending, yCalls, yUpdates>>
       ELSE /\ yCalls' = Append(yCalls, submission_id)
            /\ yPending' = yPending \cup {[id |-> submission_id, call |-> Len(yCalls) + 1]}
            /\ UNCHANGED <<ySubs, yUpdates, yLast>>
    /\ OnlyStrategy

\* The generator call of a waiting request ends: the success test, the
\* update and the response.
GenFinish(req, ending, strategy, update) ==
    /\ req \in yPending
    /\ yPending' = yPending \ {req}
    /\ LET strategy_result == GenerateStrategy(ending, strategy)
       IN IF StrategyAccepted(strategy_result)
          THEN /\ yUpdates' = Append(yUpdates, req.id)
               /\ IF update = "ok"
                  THEN /\ ySubs' = UpdateSubmissionStrategy(ySubs, req.id,
                                                            strategy_result.strategy)
                       /\ yLast' = StrategyResponse("generate", req.id, 200, ending,
                                                    "Strategy generated successfully",
                                                    strategy_result.strategy)
                  ELSE /\ ySubs' = ySubs
                       /\ yLast' = StrategyResponse("generate", req.id, 500, ending,
                                                    "Failed to generate strategy",
                                                    NoStrategy)
          ELSE /\ yLast' = StrategyResponse("generate", req.id, 500, ending,
                                            strategy_result.error, NoStrategy)
               /\ UNCHANGED <<ySubs, yUpdates>>
    /\ UNCHANGED yCalls
    /\ OnlyStrategy

\* DELETE /forms/submissions/{submission_id}.
DeleteSubmission(submission_id) ==
    /\ ySubs' = Without(ySubs, submission_id)
    /\ yLast' = StrategyResponse("delete", submission_id,
                                 IF submission_id \in DOMAIN ySubs THEN 200 ELSE 404,
                                 "not called", "", NoStrategy)
    /\ UNCHANGED <<yPending, yCalls, yUpdates>>
    /\ OnlyStrategy

NextStrategy ==
    \/ \E id \in SubmissionIds, fetch \in DbOutcomes : GenStart(id, fetch)
    \/ \E req \in yPending, ending \in GeneratorOutcomes, strategy \in Strategies,
          update \in DbOutcomes : GenFinish(req, ending, strategy, update)
    \/ \E id \in SubmissionIds : DeleteSubmission(id)

(***************************************************************************)
(* Specification of the parser: any response of up to MaxTokens tokens.    *)
(***************************************************************************)
ParserIdle == pText = <<>> /\ pResult = NoResult /\ pPhase = "idle"

InitParse ==
    /\ pText \in SeqsUpTo(Token, MaxTokens)
    /\ pResult = NoResult
    /\ pPhase = "ready"

ParseCall ==
    /\ pPhase = "ready"
    /\ pResult' = ParseLLMResponse(pText)
    /\ pPhase' = "done"
    /\ UNCHANGED pText
    /\ UNCHANGED <<budgetVars, gatewayVars, pipelineVars, laterVars>>

NextParse == ParseCall

(***************************************************************************)
(* Specification of the parser on nested objects: one well-formed object   *)
(* of up to MaxDepth levels between brace-free noise.                      *)
(***************************************************************************)
MaxDepth == 3

\* Text that holds no brace: nothing, whitespace, prose.
Noise == {<<>>, <<" ">>, <<"w">>}

\* The well-formed objects of at most d levels with at most two members, at
\* most one of them an object.
RECURSIVE NestedObjects(_)
NestedObjects(d) ==
    IF d = 0 THEN {}
    ELSE LET values == {<<"n">>} \cup NestedObjects(d - 1)
         IN {<<"{", "}">>}
            \cup {<<"{", "k">> \o v \o <<"}">> : v \in values}
            \cup {<<"{", "k", "n", "k">> \o v \o <<"}">> : v \in values}
            \cup {<<"{", "k">> \o v \o <<"k", "n", "}">> : v \in values}

NestedTexts ==
    {b \o o \o a : b \in Noise, o \in NestedObjects(MaxDepth), a \in Noise}

InitNested ==
    /\ pText \in NestedTexts
    /\ pResult = NoResult
    /\ pPhase = "ready"

(***************************************************************************)
(* Specifications: each exercises one component and keeps the others idle. *)
(***************************************************************************)
LastIdle == TruncIdle /\ StrategyIdle

LaterIdle ==
    /\ NormalizerIdle /\ ClassifierIdle /\ AnalyzeIdle
    /\ RunsIdle /\ AuthIdle /\ StoreIdle /\ LastIdle

Init == InitPipeline /\ ParserIdle /\ BudgetIdle /\ GatewayIdle /\ LaterIdle
Spec == Init /\ [][Next]_vars

InitParseSpec == InitParse /\ BudgetIdle /\ GatewayIdle /\ PipelineIdle /\ LaterIdle
SpecParse == InitParseSpec /\ [][NextParse]_vars

InitBudgetSpec == InitBudget /\ ParserIdle /\ GatewayIdle /\ PipelineIdle /\ LaterIdle
SpecBudget == InitBudgetSpec /\ [][NextBudget]_vars

InitGatewaySpec == InitGateway /\ ParserIdle /\ BudgetIdle /\ PipelineIdle /\ LaterIdle
SpecGateway == InitGatewaySpec /\ [][NextGateway]_vars

\* The gateway with progress: a request to the backend ends (the client
\* library bounds it), a sleep ends, and the loop goes on when it can.
SpecGatewayLive == InitGatewaySpec /\ [][NextGateway]_vars /\ WF_vars(NextGateway)

InitNestedSpec == InitNested /\ BudgetIdle /\ GatewayIdle /\ PipelineIdle /\ LaterIdle
SpecNested == InitNestedSpec /\ [][NextParse]_vars

InitEnhanceSpec == InitEnhance /\ ParserIdle /\ BudgetIdle /\ GatewayIdle /\ LaterIdle
SpecEnhance == InitEnhanceSpec /\ [][NextEnhance]_vars

FirstIdle == ParserIdle /\ BudgetIdle /\ GatewayIdle /\ PipelineIdle

InitTruncSpec ==
    /\ InitTrunc
    /\ FirstIdle
    /\ NormalizerIdle /\ ClassifierIdle /\ AnalyzeIdle /\ RunsIdle /\ AuthIdle
    /\ StoreIdle /\ StrategyIdle
SpecTrunc == InitTruncSpec /\ [][NextTrunc]_vars

InitStrategySpec ==
    /\ InitStrategy
    /\ FirstIdle
    /\ NormalizerIdle /\ ClassifierIdle /\ AnalyzeIdle /\ RunsIdle /\ AuthIdle
    /\ StoreIdle /\ TruncIdle
SpecStrategy == InitStrategySpec /\ [][NextStrategy]_vars

InitNormalizerSpec ==
    /\ InitNormalizer
    /\ FirstIdle
    /\ ClassifierIdle /\ AnalyzeIdle /\ RunsIdle /\ AuthIdle /\ StoreIdle /\ LastIdle
SpecNormalizer == InitNormalizerSpec /\ [][NextNormalizer]_vars

InitClassifierSpec ==
    /\ InitClassifier
    /\ FirstIdle
    /\ NormalizerIdle /\ AnalyzeIdle /\ RunsIdle /\ AuthIdle /\ StoreIdle /\ LastIdle
SpecClassifier == InitClassifierSpec /\ [][NextClassifier]_vars

InitAnalyzeSpec ==
    /\ InitAnalyze
    /\ FirstIdle
    /\ NormalizerIdle /\ ClassifierIdle /\ RunsIdle /\ AuthIdle /\ StoreIdle /\ LastIdle
SpecAnalyze == InitAnalyzeSpec /\ [][NextAnalyze]_vars

InitRunsSpec ==
    /\ InitRuns
    /\ FirstIdle
    /\ NormalizerIdle /\ ClassifierIdle /\ AnalyzeIdle /\ AuthIdle /\ StoreIdle /\ LastIdle
SpecRuns == InitRunsSpec /\ [][NextRuns]_vars

InitAuthSpec ==
    /\ InitAuth
    /\ FirstIdle
    /\ NormalizerIdle /\ ClassifierIdle /\ AnalyzeIdle /\ RunsIdle /\ StoreIdle /\ LastIdle
SpecAuth == InitAuthSpec /\ [][NextAuth]_vars

InitStoreSpec ==
    /\ InitStore
    /\ FirstIdle
    /\ NormalizerIdle /\ ClassifierIdle /\ AnalyzeIdle /\ RunsIdle /\ AuthIdle /\ LastIdle
SpecStore == InitStoreSpec /\ [][NextStore]_vars

(***************************************************************************)
(* Claims about the parser                                                 *)
(***************************************************************************)
DirectFails(t) == ~JsonLoadsOk(Strip(t))
RegexFails(t) == ~(HasRegexMatch(t) /\ JsonLoadsOk(RegexSearch(t)))
BraceScanFails(t) == ~(FindBrace(t) # 0 /\ JsonLoadsOk(BraceSlice(t)))
AllStrategiesFail(t) == DirectFails(t) /\ RegexFails(t) /\ BraceScanFails(t)

\* Brace depth after reading t[i..j], counted as a reader of the text would.
RECURSIVE DepthAfter(_, _, _)
DepthAfter(t, i, j) ==
    IF j < i THEN 0
    ELSE DepthAfter(t, i, j - 1)
         + (IF t[j] = "{" THEN 1 ELSE IF t[j] = "}" THEN -1 ELSE 0)

\* The text has a "{" and the braces opened at its first "{" never balance.
FirstBraceNeverBalances(t) ==
    \E i \in 1..Len(t) :
        /\ t[i] = "{"
        /\ \A h \in 1..(i - 1) : t[h] # "{"
        /\ \A j \in i..Len(t) : DepthAfter(t, i, j) # 0

RaisesWithRawText == pResult.raised /\ pResult.text = pText /\ pResult.value = <<>>

C6_ReturnsObjectOnly ==
    pPhase = "done" /\ ~pResult.raised =>
        /\ IsJsonObject(pResult.value)
        /\ pResult.strategy = 1 <=> ~DirectFails(pText)
        /\ pResult.strategy = 2 <=> DirectFails(pText) /\ ~RegexFails(pText)
        /\ pResult.strategy = 3 <=>
               DirectFails(pText) /\ RegexFails(pText) /\ ~BraceScanFails(pText)

(***************************************************************************)
(* Claims about budget normalization                                       *)
(***************************************************************************)
\* "<N>k": one or more digits followed by a single k, no currency marker.
IsNk(s) ==
    /\ Len(s) >= 2
    /\ s[Len(s)] = "k"
    /\ IsDigitStr(SubSeq(s, 1, Len(s) - 1))

\* n rendered with thousands separators, as Python's format(n, ',').
RECURSIVE WithSeparators(_)
WithSeparators(n) ==
    IF n < 1000 THEN IntToStr(n)
    ELSE LET low == n % 1000
             pad == IF low < 10 THEN <<"0", "0">> ELSE IF low < 100 THEN <<"0">> ELSE <<>>
         IN WithSeparators(n \div 1000) \o <<",">> \o pad \o IntToStr(low)

CanonicalBudget(n) == <<"L", "K", "R", " ">> \o WithSeparators(n)

\* C10: a budget "<N>k" is normalized to "LKR " and N*1000 with thousands
\* separators, without an error; a canonical budget is left unchanged, so
\* normalizing twice equals normalizing once.
C10_BudgetNormalized ==
    /\ bPhase = "once" /\ IsNk(bIn) =>
           /\ ~bOut.raised
           /\ bOut.value = CanonicalBudget(StrToInt(SubSeq(bIn, 1, Len(bIn) - 1)) * 1000)
    /\ bPhase = "once" /\ bIn \in LongBudgets /\ SubSeq(bIn, 1, 4) = <<"L", "K", "R", " ">> =>
           ~bOut.raised /\ bOut.value = bIn
    /\ bPhase = "twice" /\ IsNk(bIn) =>
           ~bOut.raised /\ bOut.value = NormalizeBudget(bIn).value

\* The failing case of C10: a "<N>k" budget makes the call raise.
C10_NkRaises == bPhase = "once" /\ IsNk(bIn) /\ bOut.raised

LLMFailed ==
    /\ outcome.client = "ok"
    /\ \/ outcome.call \in LLMCallError
       \/ outcome.call = "text" /\ ParseLLMResponse(outcome.text).raised

IdentityOf(p) == Get(p, "business_identity", EmptyDict)

IsPrefix(s, t) == Len(s) <= Len(t) /\ SubSeq(t, 1, Len(s)) = s

\* The stages of the run before its end in Failed, if it ended so.
StagesEntered ==
    IF history # <<>> /\ history[Len(history)] = "Failed"
    THEN SubSeq(history, 1, Len(history) - 1)
    ELSE history

\* The stage whose work raised the error that ended the run.
FailedStage == errors[Len(errors)].stage

\* C2: a run goes through Received, Normalized, Extracted(LLM), Enhanced,
\* GapFilled, Validated, Done in this order, skipping and repeating none,
\* ends in Done or in Failed, and enters Failed only by an error of the
\* extraction stage or of the validation stage.
C2_StageOrder ==
    /\ IsPrefix(StagesEntered, Stages)
    /\ pc = history[Len(history)]
    /\ pc = "Failed" => FailedStage \in {"Extracted(LLM)", "Validated"}

\* The order of the stages alone, which the code keeps.
C2_OrderOnly == IsPrefix(StagesEntered, Stages)

CaughtAtBoundary == {i \in 1..Len(errors) : errors[i].caught_by = "build_profile"}

ResourcesOf(p) == Get(p, "resources", EmptyDict)
AssumptionsOf(p) == Get(p, "missing_data_assumptions", EmptyDict)
NoEntry == "<no entry>"
AssumptionFor(p, key) == Get(AssumptionsOf(p), key, NoEntry)

\* C7: a field among business_stage, team_or_solo, content_capacity and
\* strengths that is non-empty before the gap-filling step has the same
\* value after it, and no assumption entry for the field is added.
C7_NoOverwrite ==
    pc = "GapFilled" =>
        /\ Get(IdentityOf(before), "business_stage", "") # "" =>
               /\ IdentityOf(profile)["business_stage"] = IdentityOf(before)["business_stage"]
               /\ AssumptionFor(profile, "business_stage") = AssumptionFor(before, "business_stage")
        /\ Get(ResourcesOf(before), "team_or_solo", "") # "" =>
               /\ ResourcesOf(profile)["team_or_solo"] = ResourcesOf(before)["team_or_solo"]
               /\ AssumptionFor(profile, "team_structure") = AssumptionFor(before, "team_structure")
        /\ Get(ResourcesOf(before), "content_capacity", "") # "" =>
               /\ ResourcesOf(profile)["content_capacity"] = ResourcesOf(before)["content_capacity"]
               /\ AssumptionFor(profile, "content_capacity") = AssumptionFor(before, "content_capacity")
        /\ Truthy(Get(before, "strengths", ListOf(<<>>))) =>
               /\ profile["strengths"] = before["strengths"]
               /\ AssumptionFor(profile, "strengths") = AssumptionFor(before, "strengths")

\* A restaurant with its own stage, team, capacity and strengths went
\* through the gap-filling step.
C7_Witness ==
    /\ pc = "GapFilled"
    /\ Get(IdentityOf(before), "business_stage", "") = "Established"
    /\ Get(ResourcesOf(before), "team_or_solo", "") = "Team of 5"
    /\ Get(ResourcesOf(before), "content_capacity", "") = "High"
    /\ Truthy(Get(before, "strengths", ListOf(<<>>)))
    /\ normalized_input = <<"bakery">>

\* C8: every entry of missing_data_assumptions, the entries of the LLM output
\* included, is still there with the same note at every later point of the
\* run and in the returned profile.
C8_AssumptionsAppendOnly ==
    /\ \A k \in DOMAIN AssumptionsOf(before) :
           AssumptionFor(profile, k) = AssumptionsOf(before)[k]
    /\ pc = "Done" =>
           \A k \in DOMAIN AssumptionsOf(outcome.object) :
               AssumptionFor(result.profile, k) = AssumptionsOf(outcome.object)[k]

\* C9: a returned profile has every top-level group key, whatever keys the
\* LLM output had.
C9_AllGroupsPresent ==
    pc = "Done" =>
        /\ result.status = "returned"
        /\ GroupKeys \subseteq DOMAIN result.profile

\* A profile was returned for an LLM output without any group.
C9_Witness ==
    /\ pc = "Done"
    /\ extracted = "object"
    /\ outcome.object = EmptyDict
    /\ GroupKeys \subseteq DOMAIN result.profile

(***************************************************************************)
(* Claims about the lexical normalizer                                     *)
(***************************************************************************)
\* C11: the normalizer applied to its own output gives that output again,
\* for every input text.
C11_NormalizerIdempotent ==
    nPhase = "twice" => nOut = PreprocessText(nIn)

(***************************************************************************)
(* Claims about business-type extraction                                   *)
(***************************************************************************)
\* The keywords that occur in the text when letter case is ignored.
KeywordsIn(text) ==
    {i \in 1..Len(KeywordEntries) :
        ContainsSub(Lower(text), Lower(KeywordEntries[i].keyword))}

FirstKeywordIn(text) == CHOOSE i \in KeywordsIn(text) : \A j \in KeywordsIn(text) : i <= j

\* C12: for a text that holds a keyword of the table, in any letter case,
\* extraction returns the title-cased category of the first keyword found
\* in table order; for a text without a keyword it returns none.
C12_CategoryOfFirstKeyword ==
    kPhase = "done" /\ kType = <<>> =>
        IF KeywordsIn(kText) # {}
        THEN kOut = SomeType(Title(KeywordEntries[FirstKeywordIn(kText)].category))
        ELSE kOut = NoType

\* The part of C12 that the code keeps: a keyword that is found, written as
\* the table has it, wins in table order, and no keyword gives none.
C12_KeywordOfFirstMatch ==
    kPhase = "done" /\ kType = <<>> =>
        LET found == {i \in KeywordsIn(kText) :
                         ContainsSub(Lower(kText), KeywordEntries[i].keyword)}
        IN IF found # {}
           THEN kOut = SomeType(Title(KeywordEntries[
                           CHOOSE i \in found : \A j \in found : i <= j].keyword))
           ELSE kOut = NoType

\* The keyword written with capitals in the table is never found.
C12_ITSupportFound ==
    kPhase = "done" /\ kType = <<>>
        /\ kText = <<"i", "t", " ", "s", "u", "p", "p", "o", "r", "t">> => ~kOut.none

(***************************************************************************)
(* Claims about the analyze-only handler                                   *)
(***************************************************************************)
InsightKeys == {InsightCalls[i][1] : i \in 1..Len(InsightCalls)}

\* C13: the analyze-only operation never fails and never calls the LLM: for
\* every text it returns a successful result with business type, location,
\* platforms, budget, challenges, strengths and normalized text.
C13_AnalyzeSucceeds ==
    /\ aLLMCalls = 0
    /\ aPhase = "done" =>
           /\ aResponse.success
           /\ {aResponse.insights[i][1] : i \in DOMAIN aResponse.insights} = InsightKeys

\* The part of C13 that the code keeps: no exception leaves the handler and
\* no LLM call is made.
C13_NoLLMCall == aLLMCalls = 0 /\ aPhase = "done" => "success" \in DOMAIN aResponse

(***************************************************************************)
(* Claims about concurrent runs                                            *)
(***************************************************************************)
Finished(r) == rPc[r] \in {"Done", "Failed"}

\* C14: under every interleaving of the runs, each finished run returns (or
\* raises) what build_profile gives when executed alone with the same input
\* and the same LLM outcome, and a run reads and writes no profile dict but
\* its own.
C14_RunsIndependent ==
    \A r \in Runs :
        /\ Finished(r) => rResult[r] = RunAlone(rRaw[r], rOutcome[r])
        /\ rTouched[r] \subseteq {r}

\* Two runs with different inputs both finished with a profile built from
\* the fallback dict, each having touched its own dict only.
C14_Witness ==
    \E r, q \in Runs :
        /\ r # q
        /\ rPc[r] = "Done" /\ rPc[q] = "Done"
        /\ rOutcome[r].call = "Timeout" /\ rOutcome[q].call = "Timeout"
        /\ rRaw[r] # rRaw[q]
        /\ rResult[r] # rResult[q]
        /\ rTouched[r] = {r} /\ rTouched[q] = {q}

(***************************************************************************)
(* Claims about the error kinds of the gateway                             *)
(***************************************************************************)
\* The error kind the failure of the last request would have of its own.
KindOf(failure) ==
    CASE failure = "ConnectionError" -> "ConnectionFailed"
      [] failure = "Timeout" -> "Timeout"
      [] failure = "APIError" -> "GenerationFailed"

OnePerEmail(users) ==
    \A i, j \in DOMAIN users : users[i].email = users[j].email => i = j

\* C16: a registration request whose email already belongs to a registered
\* user is answered 400 and adds no row, and after every sequence of
\* requests no two rows of the users table hold the same email.
C16_NoDuplicateUser ==
    [][/\ (/\ uLast'.op = "register"
           /\ uLast' # uLast
           /\ \E i \in DOMAIN uUsers : uUsers[i].email = uLast'.email)
           => (uLast'.status = 400 /\ uUsers' = uUsers)
       /\ OnePerEmail(uUsers')]_vars

\* A second registration with a registered email and another password was
\* answered 400.
C16_Witness ==
    /\ uLast.op = "register"
    /\ uLast.status = 400
    /\ \E i \in DOMAIN uUsers :
          /\ uUsers[i].email = uLast.email
          /\ ~VerifyPassword(uLast.password, uUsers[i].hashed_password)

\* The token `held` was made by create_access_token from data with a sub
\* claim and has not expired at time `at`.
HeldValidAt(held, token, at) ==
    /\ held # NothingHeld
    /\ token = held.token
    /\ "sub" \in DOMAIN held.data
    /\ at <= held.at + ACCESS_TOKEN_EXPIRE_MINUTES

\* C17: a token made by create_access_token from {sub: e, user_id: u} and
\* presented while unexpired is decoded to TokenData with email e and user
\* id u; a token not made with the server key, an expired token and a token
\* without sub are answered 401 and the protected handler does not run.
C17_TokenRoundTrip ==
    uLast.op = "protected" =>
        IF HeldValidAt(uHeld, uLast.token, uLast.at)
        THEN /\ uLast.status = 200
             /\ uLast.ran
             /\ uLast.data = [email |-> uHeld.data.sub, user_id |-> uHeld.data.user_id]
        ELSE /\ uLast.status = 401
             /\ ~uLast.ran
             /\ uLast.data = NoTokenData

\* The token issued by a login was presented after it expired and refused.
C17_Witness ==
    /\ uLast.op = "protected"
    /\ uLast.token = uHeld.token
    /\ "sub" \in DOMAIN uHeld.data
    /\ uLast.at > uHeld.at + ACCESS_TOKEN_EXPIRE_MINUTES
    /\ uLast.status = 401

\* A token was presented in time and the handler ran with its claims.
C17_Accepted ==
    /\ uLast.op = "protected"
    /\ uLast.ran
    /\ uLast.at > uHeld.at

\* C18: login answers 200 with a token only when a row with the given email
\* exists and the given password verifies against its stored hash; an
\* unknown email and a wrong password are both answered 401 with the detail
\* "Incorrect email or password" and no token.
C18_LoginOnlyWithPassword ==
    uLast.op = "login" =>
        LET known == \E i \in DOMAIN uUsers :
                        /\ uUsers[i].email = uLast.email
                        /\ uUsers[i].hashed_password.digest_of = uLast.password
        IN IF known
           THEN /\ uLast.status = 200
                /\ DecodeAccessToken(uLast.token, uLast.at).data.email = uLast.email
           ELSE /\ uLast.status = 401
                /\ uLast.detail = "Incorrect email or password"
                /\ uLast.token = NoToken

\* A login with a registered email and another password was refused.
C18_Witness ==
    /\ uLast.op = "login"
    /\ uLast.status = 401
    /\ \E i \in DOMAIN uUsers :
          /\ uUsers[i].email = uLast.email
          /\ uUsers[i].hashed_password.digest_of # uLast.password

(***************************************************************************)
(* Claims about the profile store                                          *)
(***************************************************************************)
\* C19: get and delete with an id that is not stored (never created, or
\* deleted before) answer 404 "Profile not found" and leave the store as it
\* was.
C19_AbsentIdNotFound ==
    [][(/\ sLast' # sLast \/ sStore' # sStore
        /\ sLast'.op \in {"get", "delete"}
        /\ sLast'.id \notin DOMAIN sStore)
        => (/\ sLast'.status = 404
            /\ sLast'.detail = "Profile not found"
            /\ sStore' = sStore)]_vars

\* A profile was built and deleted, and a second delete of its id was
\* answered 404.
C19_Witness ==
    /\ sLast.op = "delete"
    /\ sLast.status = 404
    /\ sLast.id \in sDeleted
    /\ sLast.id \notin DOMAIN sStore

\* C20: a profile a build created is stored under its id, unchanged, at
\* every later point until that profile is deleted, and a get of an id that
\* was deleted answers 404 from then on.
C20_Lifecycle ==
    /\ \A b \in sBuilt :
          b.id \notin sDeleted =>
              /\ b.id \in DOMAIN sStore
              /\ sStore[b.id].profile = b.profile
    /\ (sLast.op = "get" /\ sLast.id \in sDeleted) => sLast.status = 404

\* The part of C20 about delete: it removes the given id and leaves every
\* other entry as it was.
C20_DeleteExact ==
    [][(sLast'.op = "delete" /\ sLast'.status = 200 /\ sStore' # sStore)
        => sStore' = Without(sStore, sLast'.id)]_vars

(***************************************************************************)
(* Claims about the parser on nested objects                               *)
(***************************************************************************)
\* Nesting depth of the braces of t.
MaxDepthOf(t) ==
    LET depths == {DepthAfter(t, 1, j) : j \in 1..Len(t)} \cup {0}
    IN CHOOSE d \in depths : \A e \in depths : e <= d

\* The outermost object of a text made of one object between brace-free
\* noise: from the first "{" to the "}" where the depth is back at zero.
OutermostObject(t) ==
    LET start == FindBrace(t)
        stop == CHOOSE j \in start..Len(t) :
                    /\ DepthAfter(t, start, j) = 0
                    /\ \A h \in start..(j - 1) : DepthAfter(t, start, h) # 0
    IN SubSeq(t, start, stop)

\* C21: for brace-free noise around one well-formed object nested to any
\* depth, the parser returns the whole outermost object (first "{" to the
\* point where the depth is back at zero), never an inner sub-object.
C21_ReturnsOutermost ==
    pPhase = "done" /\ pText \in NestedTexts =>
        /\ ~pResult.raised
        /\ pResult.value = OutermostObject(pText)

\* What the code does on these texts: the whole object when it is the whole
\* stripped text or has at most two levels; otherwise the regex strategy
\* answers with an inner object of two levels.
C21_OutermostWhenShallow ==
    pPhase = "done" /\ pText \in NestedTexts =>
        /\ ~pResult.raised
        /\ (~DirectFails(pText) \/ MaxDepthOf(pText) <= 2)
               => pResult.value = OutermostObject(pText)
        /\ (DirectFails(pText) /\ MaxDepthOf(pText) > 2)
               => /\ pResult.strategy = 2
                  /\ pResult.value # OutermostObject(pText)
                  /\ MaxDepthOf(pResult.value) = 2

(***************************************************************************)
(* Claims about the enhancer                                               *)
(***************************************************************************)
\* The table keywords that occur in a text, by their position in the table.
KeywordsInText(text) ==
    {i \in 1..Len(BusinessTypeKeywords) : InText(BusinessTypeKeywords[i], text)}

\* The table keywords that occur in the business type the LLM stated.
KeywordsInType(p) ==
    IF BusinessTypeOf(p) = PyNone THEN {}
    ELSE {i \in 1..Len(BusinessTypeKeywords) :
             Substr(BusinessTypeKeywords[i], LowerStr(BusinessTypeOf(p)))}

FirstOf(hits) == CHOOSE i \in hits : \A j \in hits : i <= j

\* C22: whenever the normalized text contains a keyword of the business-type
\* table, the business_type after enhancement is the classification of the
\* first table keyword found in that text, whatever type the LLM stated.
C22_TextSignalFirst ==
    pc = "Enhanced" /\ KeywordsInText(normalized_input) # {} =>
        BusinessTypeOf(profile) =
            TitleStr(BusinessTypeKeywords[FirstOf(KeywordsInText(normalized_input))])

\* What the code does: the first table keyword found in the text or in the
\* stated type wins, so the text's keyword wins only when no earlier keyword
\* occurs in the stated type.
C22_FirstKeywordOfEither ==
    pc = "Enhanced" /\ KeywordsInText(normalized_input) # {} =>
        BusinessTypeOf(profile) =
            TitleStr(BusinessTypeKeywords[
                FirstOf(KeywordsInText(normalized_input) \cup KeywordsInType(before))])

\* A run where the stated type holds an earlier keyword than the text.
C22_StatedTypeWins ==
    /\ pc = "Enhanced"
    /\ KeywordsInText(normalized_input) # {}
    /\ KeywordsInType(before) # {}
    /\ FirstOf(KeywordsInType(before)) < FirstOf(KeywordsInText(normalized_input))

\* The four operations of _enhance_profile, each applied to the result of
\* the one before; an operation that reads business_type raises on None as
\* .lower() does.
EnhancerOps == {"type", "audience", "platform", "budget"}

ReadsTypeForAudience(p) ==
    LET demographics == Get(Get(p, "target_audience", EmptyDict), "demographics", <<>>)
    IN demographics # <<>> /\ ~InText("specific", LowerText(demographics))

ApplyOp(op, r, text) ==
    IF r.raised THEN r
    ELSE CASE op = "type" -> EnhanceBusinessType(r.profile, text)
           [] op = "audience" ->
                  IF ReadsTypeForAudience(r.profile) /\ BusinessTypeOf(r.profile) = PyNone
                  THEN Raised("AttributeError: 'NoneType' object has no attribute 'lower'")
                  ELSE Ok(EnhanceTargetAudience(r.profile, text))
           [] op = "platform" ->
                  IF BusinessTypeOf(r.profile) = PyNone
                  THEN Raised("AttributeError: 'NoneType' object has no attribute 'lower'")
                  ELSE Ok(EnhancePlatformPreferences(r.profile))
           [] op = "budget" -> NormalizeBudgetIn(r.profile)

EnhancerOrders ==
    {o \in [1..4 -> EnhancerOps] : \A op \in EnhancerOps : \E i \in 1..4 : o[i] = op}

ApplyInOrder(o, p, text) ==
    ApplyOp(o[4], ApplyOp(o[3], ApplyOp(o[2], ApplyOp(o[1], Ok(p), text), text), text), text)

PositionOf(o, op) == CHOOSE i \in 1..4 : o[i] = op

\* The orders that classify the business type before the two operations
\* that read it.
TypeFirstOrders ==
    {o \in EnhancerOrders :
        /\ PositionOf(o, "type") < PositionOf(o, "audience")
        /\ PositionOf(o, "type") < PositionOf(o, "platform")}

EnhanceFailed ==
    /\ pc = "Failed"
    /\ extracted \in {"object", "fallback"}
    /\ errors # <<>>
    /\ errors[Len(errors)].stage = "Enhanced"

\* C23 (as stated): the four enhancer operations applied in any order to the
\* parsed profile and the input text give the enhanced profile.
C23_AnyOrder ==
    pc = "Enhanced" =>
        \A o \in EnhancerOrders :
            ApplyInOrder(o, before, normalized_input) = Ok(profile)

\* C23 (amended): every order that classifies the business type before the
\* audience and the platforms are enriched gives the enhanced profile; an
\* order that does not may give another profile; and when the step fails
\* it fails in every order.
C23_TypeFirstOrders ==
    /\ pc = "Enhanced" =>
           \A o \in EnhancerOrders :
               LET r == ApplyInOrder(o, before, normalized_input)
               IN IF o \in TypeFirstOrders THEN r = Ok(profile) ELSE ~r.raised
    /\ EnhanceFailed =>
           \A o \in EnhancerOrders : ApplyInOrder(o, before, normalized_input).raised

\* The enhancer gave a bakery its type from the text and then a more
\* specific audience, which an audience-first order would not have given.
C23_Witness ==
    /\ pc = "Enhanced"
    /\ BusinessTypeOf(before) = ""
    /\ BusinessTypeOf(profile) = "Bakery"
    /\ Get(Get(before, "target_audience", EmptyDict), "demographics", <<>>)
           = <<"Young adults">>
    /\ Get(Get(profile, "target_audience", EmptyDict), "demographics", <<>>)
           = <<"Young adults", "(Ages 18-45, working professionals and families)">>
    /\ \E o \in EnhancerOrders : ApplyInOrder(o, before, normalized_input) # Ok(profile)

PlatformsOf(p) ==
    Get(Get(p, "platform_preferences", EmptyDict), "preferred_platforms", <<>>)

\* The default list of the first category, in the order food, beauty,
\* tech/service, a word of which occurs in the business type; the generic
\* default when none does.
DefaultPlatforms(business_type) ==
    IF \E w \in {"restaurant", "bakery", "food"} : Substr(w, business_type)
    THEN <<"Facebook", "Instagram", "WhatsApp">>
    ELSE IF \E w \in {"salon", "beauty", "fashion"} : Substr(w, business_type)
    THEN <<"Instagram", "Facebook", "TikTok">>
    ELSE IF \E w \in {"tech", "service", "consulting"} : Substr(w, business_type)
    THEN <<"LinkedIn", "Facebook", "WhatsApp">>
    ELSE <<"Facebook", "Instagram">>

\* C24: after the enhancer step preferred_platforms is never empty; a
\* non-empty list of the LLM output is unchanged, an empty or missing list is
\* replaced by the default list of the first matching category of the
\* business type, or by [Facebook, Instagram] when no category matches.
C24_PlatformsEnriched ==
    pc = "Enhanced" =>
        /\ PlatformsOf(profile) # <<>>
        /\ PlatformsOf(before) # <<>> => PlatformsOf(profile) = PlatformsOf(before)
        /\ PlatformsOf(before) = <<>> =>
               PlatformsOf(profile) = DefaultPlatforms(LowerStr(BusinessTypeOf(profile)))

\* An empty list of a technology business was replaced by the third
\* category's default.
C24_Witness ==
    /\ pc = "Enhanced"
    /\ "platform_preferences" \in DOMAIN before
    /\ "preferred_platforms" \in DOMAIN before["platform_preferences"]
    /\ PlatformsOf(before) = <<>>
    /\ BusinessTypeOf(profile) = "Tech Startup"
    /\ PlatformsOf(profile) = <<"LinkedIn", "Facebook", "WhatsApp">>

\* A missing list was replaced by the generic default, and a list of the LLM
\* output was kept.
C24_GenericDefault ==
    /\ pc = "Enhanced"
    /\ "platform_preferences" \notin DOMAIN before
    /\ PlatformsOf(profile) = <<"Facebook", "Instagram">>

C24_ListKept ==
    /\ pc = "Enhanced"
    /\ PlatformsOf(before) = <<"TikTok">>
    /\ PlatformsOf(profile) = <<"TikTok">>

(***************************************************************************)
(* Claims about the gap filler's bookkeeping                               *)
(***************************************************************************)
\* The four rules: the key of the assumption entry and the note stored.
GapRules ==
    { [key |-> "business_stage",
       note |-> "Assumed \"Growing\" as most SMEs are in growth phase"],
      [key |-> "team_structure",
       note |-> "Assumed small team structure typical for SMEs"],
      [key |-> "content_capacity",
       note |-> "Assumed limited capacity typical for SMEs"],
      [key |-> "strengths",
       note |-> "Added typical F&B business strengths"] }

\* The value of a rule's field in a profile, and the default of the rule.
RuleField(p, key) ==
    CASE key = "business_stage" -> Get(IdentityOf(p), "business_stage", "")
      [] key = "team_structure" -> Get(ResourcesOf(p), "team_or_solo", "")
      [] key = "content_capacity" -> Get(ResourcesOf(p), "content_capacity", "")
      [] key = "strengths" -> Get(p, "strengths", ListOf(<<>>))

RuleDefault(key) ==
    CASE key = "business_stage" -> "Growing"
      [] key = "team_structure" -> "Solo or small team"
      [] key = "content_capacity" -> "Limited - needs simple solutions"
      [] key = "strengths" -> ListOf(<<"Quality products", "Local customer base">>)

\* The step set the rule's default: the field holds it now and did not.
Defaulted(rule) ==
    /\ RuleField(profile, rule.key) = RuleDefault(rule.key)
    /\ RuleField(before, rule.key) # RuleDefault(rule.key)

\* The step added the rule's entry: its note stands under the key now and
\* did not.
EntryAdded(rule) ==
    /\ AssumptionFor(profile, rule.key) = rule.note
    /\ AssumptionFor(before, rule.key) # rule.note

FoodService(p) ==
    \/ Substr("restaurant", LowerStr(BusinessTypeOf(p)))
    \/ Substr("bakery", LowerStr(BusinessTypeOf(p)))

C25_AllFourRules ==
    /\ pc = "GapFilled"
    /\ \A rule \in GapRules : Defaulted(rule) /\ EntryAdded(rule)

\* An entry the LLM output already had under a rule's key is replaced by the
\* rule's entry, so the mapping grows by fewer keys than fields were
\* defaulted.
C25_EntryReplaced ==
    /\ pc = "GapFilled"
    /\ AssumptionFor(before, "business_stage") = "LLM: looks like an early-stage business"
    /\ EntryAdded([key |-> "business_stage",
                   note |-> "Assumed \"Growing\" as most SMEs are in growth phase"])

(***************************************************************************)
(* Claims about the token limit                                            *)
(***************************************************************************)
EndsWithDots(s) == Len(s) >= 3 /\ SubSeq(s, Len(s) - 2, Len(s)) = <<".", ".", ".">>

\* C26: truncate_to_token_limit returns the text unchanged when its
\* estimated token count (length div 4) is at most max_tokens; otherwise the
\* result ends with "...", is strictly shorter than the input, and its own
\* estimated token count is at most max_tokens.
C26_TruncateWithinLimit ==
    tPhase = "done" =>
        IF Len(tText) \div 4 <= tMax
        THEN tOut = tText
        ELSE /\ EndsWithDots(tOut)
             /\ Len(tOut) < Len(tText)
             /\ Len(tOut) \div 4 <= tMax

\* A text over the limit was cut at a space close to the limit.
C26_Witness ==
    /\ tPhase = "done"
    /\ Len(tText) \div 4 > tMax
    /\ tMax > 0
    /\ Len(tOut) < 4 * tMax + 3
    /\ EndsWithDots(tOut)

\* A text over the limit was cut at the character limit itself.
C26_CutAtLimit ==
    /\ tPhase = "done"
    /\ Len(tText) \div 4 > tMax
    /\ Len(tOut) = 4 * tMax + 3

(***************************************************************************)
(* Claims about the termination of the gateway                             *)
(***************************************************************************)
GatewayEnded == gState \in {"returned", "raised"}

\* The time slept before attempt number `attempt` (counted from 0) begins:
\* retry_delay * 1 + ... + retry_delay * attempt.
RECURSIVE SleptBefore(_)
SleptBefore(attempt) ==
    IF attempt = 0 THEN 0 ELSE SleptBefore(attempt - 1) + retry_delay * attempt

C27_Bounded ==
    /\ gCalls <= 3
    /\ gState = "returned" =>
           /\ gResult \in BackendText
           /\ gCalls = Len(gFailures) + 1
    /\ gState = "raised" <=> Len(gFailures) = 3
    /\ gState = "raised" => gCalls = 3
    /\ gState \in {"attempt", "inflight", "returned", "raised"} =>
           /\ gSlept = SleptBefore(gAttempt)
           /\ gAttempt > 0 => gSlept > SleptBefore(gAttempt - 1)

\* C27: generate_completion always terminates: it calls the backend at most
\* max_retries (3) times, returns the result of the first successful call
\* and makes no call after it, waits between consecutive attempts, and
\* raises exactly when all 3 attempts failed.
C27_Terminates ==
    /\ []C27_Bounded
    /\ [][GatewayEnded => UNCHANGED gatewayVars]_vars
    /\ [][gCalls' # gCalls => gCalls' = gCalls + 1 /\ gCalls = Len(gFailures)]_vars
    /\ <>GatewayEnded

\* The first two requests failed, the call waited after each and returned
\* what the third request gave.
C27_Witness ==
    /\ gState = "returned"
    /\ Len(gFailures) = 2
    /\ gCalls = 3
    /\ gSlept = 3

(***************************************************************************)
(* Claims about what a build writes to the profile store                   *)
(***************************************************************************)
BuildEnded == sLast' # sLast /\ sLast'.op \in {"build", "abandon"}

C28_FailedBuild ==
    /\ sLast.op = "build"
    /\ ~sLast.success
    /\ sStore # EmptyDict

\* A build answered with success.
BuildSucceeded == sLast' # sLast /\ sLast'.op = "build" /\ sLast'.success

\* C29: every successful build stores its profile under an id that is not
\* already in the store, so no stored profile is overwritten by a later build
\* and the store grows by exactly one entry per successful build, also when
\* two builds of the same input complete within the same second.
C29_FreshId ==
    [][BuildSucceeded =>
          /\ sLast'.id \notin DOMAIN sStore
          /\ Cardinality(DOMAIN sStore') = Cardinality(DOMAIN sStore) + 1
          /\ \A i \in DOMAIN sStore : sStore'[i] = sStore[i]]_vars

\* What the code does hold: a successful build stores its profile under the
\* id made of the second of the write and the hash of the input, and changes
\* no entry under another id.
C29_IdOfSecondAndHash ==
    [][BuildSucceeded =>
          /\ \E raw \in StoreInputs : sLast'.id = ProfileId(sClock, sHash[raw])
          /\ sLast'.id \in DOMAIN sStore'
          /\ sStore'[sLast'.id].profile = sLast'.profile
          /\ \A i \in DOMAIN sStore \ {sLast'.id} :
                i \in DOMAIN sStore' /\ sStore'[i] = sStore[i]]_vars

\* More profiles were built with success than the store ever held ids for:
\* two builds shared an id.
C29_SharedId ==
    \E b, c \in sBuilt : b.id = c.id /\ b.profile # c.profile

(***************************************************************************)
(* Claims about strategy generation                                        *)
(***************************************************************************)
\* The request whose generator call ended in this step.
FinishedRequests == yPending \ yPending'

\* The rows other than row i are as they were.
OtherRowsKept(i) ==
    /\ DOMAIN ySubs' = DOMAIN ySubs
    /\ \A j \in DOMAIN ySubs \ {i} : ySubs'[j] = ySubs[j]

\* C30: in generate_strategy_for_submission the stored submission is updated
\* with a strategy only after the generator returned a successful result for
\* it; when the submission does not exist the generator is never called and
\* 404 is returned; when generation fails, times out or reports success
\* false the stored submission is left unchanged and an error is returned.
C30_UpdateOnlyAfterSuccess ==
    [][/\ yUpdates' # yUpdates =>
             \E req \in FinishedRequests :
                /\ yUpdates' = Append(yUpdates, req.id)
                /\ yCalls[req.call] = req.id
                /\ yLast'.op = "generate" /\ yLast'.id = req.id
                /\ yLast'.outcome = "success"
       /\ (ySubs' # ySubs /\ yLast'.op # "delete") =>
             /\ yUpdates' # yUpdates
             /\ yLast'.status = 200
             /\ ySubs'[yLast'.id].strategy = yLast'.strategy
             /\ yLast'.strategy \in Strategies
             /\ OtherRowsKept(yLast'.id)
       /\ yCalls' # yCalls =>
             /\ \E id \in DOMAIN ySubs : yCalls' = Append(yCalls, id)
             /\ ySubs' = ySubs
       /\ \A id \in SubmissionIds \ DOMAIN ySubs :
             (ENABLED GenStart(id, "ok")) /\ (GenStart(id, "ok") =>
                 /\ yLast'.status = 404 /\ yLast'.id = id
                 /\ yCalls' = yCalls /\ ySubs' = ySubs /\ yUpdates' = yUpdates)
       /\ (FinishedRequests # {} /\ yLast'.outcome # "success") =>
             /\ yLast'.status = 500
             /\ ySubs' = ySubs
             /\ yUpdates' = yUpdates]_vars

\* A generator call ended with success and the row of its submission holds
\* the strategy it returned, after a request for a missing id was refused
\* or another call failed.
C30_Witness ==
    /\ yLast.op = "generate"
    /\ yLast.status = 200
    /\ yLast.id \in DOMAIN ySubs
    /\ ySubs[yLast.id].strategy = yLast.strategy
    /\ Len(yUpdates) = 1
    /\ Len(yCalls) = 2

\* A request for an id without a row was answered 404 while no call of the
\* generator was made.
C30_MissingRefused ==
    /\ yLast.op = "generate"
    /\ yLast.status = 404
    /\ yLast.id \notin DOMAIN ySubs
    /\ yCalls = <<>>

\* A generator call timed out and the row kept no strategy.
C30_TimedOut ==
    /\ yLast.op = "generate"
    /\ yLast.outcome = "timeout"
    /\ yLast.status = 500
    /\ yLast.id \in DOMAIN ySubs
    /\ ySubs[yLast.id].strategy = NoStrategy

====
